---- MODULE Spec2Model ----
(***************************************************************************)
(* A model of the EWR wrestler.dat editor: the schema validator, the       *)
(* record codec (parseWrestlerDat / writeWrestlerDat), the byte validator  *)
(* and the record-set operations of App.tsx (open, save, add, copy,        *)
(* delete, multi-delete, import, CSV apply).                               *)
(*                                                                         *)
(* Conventions.                                                            *)
(*  - A byte buffer (Uint8Array) is a sequence over 0..255.  The source    *)
(*    uses 0-based offsets; At(b, off) reads b[off + 1].                   *)
(*  - A JavaScript string is a sequence of character codes.                *)
(*  - A Worker object is a function from its own property names (strings)  *)
(*    to values; "k \in DOMAIN w" is Object.hasOwnProperty(w, k).          *)
(*  - A call that can throw returns [ok |-> TRUE, ...] or                  *)
(*    [ok |-> FALSE, err |-> kind, ...].                                   *)
(*  - The record layout (wrestler_dat_schema.json) is not among the        *)
(*    sources.  The model keeps the header the sources fix (marker byte 52 *)
(*    at offset 0, 16-bit id at offset 1) and one field of every kind in a *)
(*    record scaled down from 307 bytes; the employment offsets are scaled *)
(*    with it.                                                             *)
(***************************************************************************)
EXTENDS Integers, Sequences, FiniteSets, TLC

\* ------------------------------------------------------------------ basics

Min(a, b) == IF a <= b THEN a ELSE b
Max(a, b) == IF a >= b THEN a ELSE b

\* bytes[off] for a 0-based offset
At(bytes, off) == bytes[off + 1]

\* bytes.slice(from, to): 0-based, end exclusive, clipped to the buffer
Slice(bytes, from, to) ==
  LET f == Max(0, Min(from, Len(bytes)))
      t == Max(f, Min(to, Len(bytes)))
  IN  SubSeq(bytes, f + 1, t)

\* a sequence of n copies of v
Fill(n, v) == [i \in 1..n |-> v]

\* the buffer with the bytes of part written at 0-based offset off (out.set)
SetAt(bytes, off, part) ==
  [i \in 1..Len(bytes) |->
     IF i > off /\ i <= off + Len(part) THEN part[i - off] ELSE bytes[i]]

\* ------------------------------------------------------------------ strings

\* the white space String.prototype.trim removes, among the codes 0..255
IsSpace(c) == c \in {9, 10, 11, 12, 13, 32, 160}

RECURSIVE TrimLeft(_)
TrimLeft(s) ==
  IF s = <<>> THEN s
  ELSE IF IsSpace(Head(s)) THEN TrimLeft(Tail(s)) ELSE s

RECURSIVE TrimRight(_)
TrimRight(s) ==
  IF s = <<>> THEN s
  ELSE IF IsSpace(s[Len(s)]) THEN TrimRight(SubSeq(s, 1, Len(s) - 1)) ELSE s

Trim(s) == TrimRight(TrimLeft(s))

\* String.prototype.toLowerCase on the codes 0..255
LowerChar(c) ==
  IF (c >= 65 /\ c <= 90) \/ (c >= 192 /\ c <= 222 /\ c # 215) THEN c + 32 ELSE c

ToLower(s) == [i \in 1..Len(s) |-> LowerChar(s[i])]

EndsWith(s, suffix) ==
  /\ Len(s) >= Len(suffix)
  /\ SubSeq(s, Len(s) - Len(suffix) + 1, Len(s)) = suffix

\* s.slice(0, n)
Take(s, n) == SubSeq(s, 1, Min(Len(s), Max(0, n)))

StrNone == <<78, 111, 110, 101>>         \* "None"
ExtJpg  == <<46, 106, 112, 103>>         \* ".jpg"
ExtJpeg == <<46, 106, 112, 101, 103>>    \* ".jpeg"
ExtPng  == <<46, 112, 110, 103>>         \* ".png"
ExtGif  == <<46, 103, 105, 102>>         \* ".gif"

\* JavaScript's non-finite numbers, encoded outside the range the model's
\* finite numbers take
NaN == -2147483647
PosInfinity == 2147483646
NegInfinity == -2147483646

IsFinite(n) == n \notin {NaN, PosInfinity, NegInfinity}

\* The numbers that are no integers: k + 1/2, encoded as HalfBase + k, in a
\* band of their own above the integers the model uses.
HalfBase == 1000000000
Half(k) == HalfBase + k
IsHalf(n) == n > HalfBase - 1000000 /\ n < HalfBase + 1000000

\* ------------------------------------------------------- schema validation

\* A failure (a thrown Error) and a success of a call that returns nothing.
ErrAt(kind, why, index, offset) ==
  [ok |-> FALSE, err |-> kind, why |-> why, index |-> index, offset |-> offset]
Fail(kind, why) == ErrAt(kind, why, -1, -1)
Pass == [ok |-> TRUE]

sizeOfField(f) ==
  IF f.type = "u8" THEN 1
  ELSE IF f.type = "u16le" THEN 2
  ELSE IF f.type = "ascii_fixed" THEN (IF f.length <= 0 THEN 0 ELSE f.length)
  ELSE 0

\* TRUE when assertFiniteInt does not throw
assertFiniteInt(n) == IsFinite(n)

\* typeof s === "string" && s.trim().length > 0, for the names "", " ", "a", ...
assertNonEmptyString(s) == s \notin {"", " "}

\* "" when the range is in bounds, else the reason assertRangeInBounds throws
assertRangeInBounds(r, recordSize) ==
  IF r.start < 0 THEN "start < 0"
  ELSE IF r.end <= r.start THEN "non-positive length"
  ELSE IF r.end > recordSize THEN "out of bounds"
  ELSE ""

\* the comparator of the sort: a.start - b.start || a.end - b.end
RangeCompare(a, b) ==
  IF a.start - b.start # 0 THEN a.start - b.start ELSE a.end - b.end

\* Array.prototype.sort with that comparator (stable): insertion of each
\* element after the last one that does not compare greater
RECURSIVE InsertRange(_, _)
InsertRange(sorted, r) ==
  IF sorted = <<>> THEN <<r>>
  ELSE IF RangeCompare(sorted[Len(sorted)], r) <= 0 THEN Append(sorted, r)
  ELSE Append(InsertRange(SubSeq(sorted, 1, Len(sorted) - 1), r), sorted[Len(sorted)])

RECURSIVE SortRanges(_)
SortRanges(ranges) ==
  IF ranges = <<>> THEN <<>>
  ELSE InsertRange(SortRanges(SubSeq(ranges, 1, Len(ranges) - 1)), ranges[Len(ranges)])

\* the adjacent-pair check without the sort
assertNoOverlapsUnsorted(ranges) ==
  \A i \in 2..Len(ranges) : ~(ranges[i].start < ranges[i - 1].end)

\* TRUE when no exception is thrown: no range starts before its predecessor
\* (in the sorted order) ends
assertNoOverlaps(ranges) ==
  LET sorted == SortRanges(ranges)
  IN  \A i \in 2..Len(sorted) : ~(sorted[i].start < sorted[i - 1].end)

MarkerRange(schema) ==
  [name |-> "recordHeader.marker",
   start |-> schema.recordHeader.marker.offset,
   end |-> schema.recordHeader.marker.offset + 1]

IdRange(schema) ==
  [name |-> "recordHeader.workerId",
   start |-> schema.recordHeader.workerId.offset,
   end |-> schema.recordHeader.workerId.offset + 2]

FieldRange(f) == [name |-> f.name, start |-> f.offset, end |-> f.offset + sizeOfField(f)]

SupportedType(t) == t \in {"u8", "u16le", "ascii_fixed"}

\* "" when the loop body of validateWrestlerDatSchema passes for field f,
\* else the reason of the first check that throws
FieldError(f, recordSize) ==
  IF ~assertNonEmptyString(f.name) THEN "field.name must be a non-empty string"
  ELSE IF ~assertFiniteInt(f.offset) THEN "offset must be a finite number"
  ELSE IF f.offset < 0 THEN "offset < 0"
  ELSE IF ~SupportedType(f.type) THEN "unsupported type"
  ELSE IF f.type = "ascii_fixed" /\ ~assertFiniteInt(f.length) THEN "length must be a finite number"
  ELSE IF f.type = "ascii_fixed" /\ f.length <= 0 THEN "ascii_fixed length must be > 0"
  ELSE IF sizeOfField(f) <= 0 THEN "invalid computed size"
  ELSE assertRangeInBounds(FieldRange(f), recordSize)

validateWrestlerDatSchema(schema) ==
  LET rs == schema.recordSize
      fs == schema.fields
      bad == {i \in 1..Len(fs) : FieldError(fs[i], rs) # ""}
      first == CHOOSE i \in bad : \A j \in bad : i <= j
      ranges == <<MarkerRange(schema), IdRange(schema)>> \o [i \in 1..Len(fs) |-> FieldRange(fs[i])]
  IN  IF ~assertFiniteInt(rs) THEN Fail("SchemaInvalid", "recordSize must be a finite number")
      ELSE IF rs <= 0 THEN Fail("SchemaInvalid", "recordSize must be > 0")
      ELSE IF \E n \in {schema.recordHeader.marker.offset, schema.recordHeader.marker.value,
                        schema.recordHeader.workerId.offset} : ~assertFiniteInt(n)
        THEN Fail("SchemaInvalid", "recordHeader must hold finite numbers")
      ELSE IF assertRangeInBounds(MarkerRange(schema), rs) # ""
        THEN Fail("SchemaInvalid", assertRangeInBounds(MarkerRange(schema), rs))
      ELSE IF assertRangeInBounds(IdRange(schema), rs) # ""
        THEN Fail("SchemaInvalid", assertRangeInBounds(IdRange(schema), rs))
      ELSE IF bad # {} THEN Fail("SchemaInvalid", FieldError(fs[first], rs))
      ELSE IF ~assertNoOverlaps(ranges) THEN Fail("SchemaInvalid", "overlapping fields")
      ELSE Pass


\* ------------------------------------------------------------ the layout

\* The schema document the codec and App.tsx import (wrestler_dat_schema.json).
schema ==
  [recordSize |-> 20,
   recordHeader |-> [marker |-> [offset |-> 0, value |-> 52],
                     workerId |-> [offset |-> 1]],
   fields |-> << [name |-> "fullName", offset |-> 3, type |-> "ascii_fixed", length |-> 2],
                 [name |-> "photoName", offset |-> 5, type |-> "ascii_fixed", length |-> 8],
                 [name |-> "ageRaw", offset |-> 13, type |-> "u16le", length |-> 0],
                 [name |-> "wageThousandsRaw", offset |-> 15, type |-> "u16le", length |-> 0],
                 [name |-> "pfTypeFlagA", offset |-> 17, type |-> "u8", length |-> 0] >>]

recordSize == schema.recordSize
markerOffset == schema.recordHeader.marker.offset
markerValue == schema.recordHeader.marker.value
idOffset == schema.recordHeader.workerId.offset

FieldNames == {schema.fields[i].name : i \in 1..Len(schema.fields)}

\* the last field of the schema with that name (a later assignment wins)
FieldNamed(name) ==
  schema.fields[CHOOSE i \in 1..Len(schema.fields) :
                  /\ schema.fields[i].name = name
                  /\ \A j \in 1..Len(schema.fields) : schema.fields[j].name = name => j <= i]

\* ----------------------------------------------------------------- decode

\* a big-endian read of the two bytes
u16be(bytes, offset) == 256 * bytes[offset + 1] + bytes[offset + 2]

\* DataView.getUint8 / getUint16(offset, true)
u8(bytes, offset) == At(bytes, offset)
u16le(bytes, offset) == At(bytes, offset) + 256 * At(bytes, offset + 1)

\* the characters before the first NUL
RECURSIVE UntilNul(_)
UntilNul(s) ==
  IF s = <<>> \/ Head(s) = 0 THEN <<>> ELSE <<Head(s)>> \o UntilNul(Tail(s))

\* Bin.asciiFixed: one character per byte up to the first NUL, then trim
asciiFixed(bytes, offset, length) == Trim(UntilNul(Slice(bytes, offset, offset + length)))

\* x & 0xff for x >= 0
LowByte(x) == x % 256

\* Object spread / Object.assign: the properties of patch over those of w
Assign(w, patch) ==
  [k \in DOMAIN w \cup DOMAIN patch |-> IF k \in DOMAIN patch THEN patch[k] ELSE w[k]]

\* the value parseWrestlerDat reads for field f of the record at recordStart
ReadField(bytes, recordStart, f) ==
  IF f.type = "u8" THEN u8(bytes, recordStart + f.offset)
  ELSE IF f.type = "u16le" THEN u16le(bytes, recordStart + f.offset)
  ELSE asciiFixed(bytes, recordStart + f.offset, f.length)

\* the raw field a derived convenience value is computed from
RawName(k) ==
  CASE k = "nationality" -> "nationalityRaw"
    [] k = "birthMonth" -> "birthMonthRaw"
    [] k = "weight" -> "weightRaw"
    [] k = "age" -> "ageRaw"
    [] OTHER -> "wageThousandsRaw"

\* the "convenience normalized fields" added after the schema fields
DerivedFields(w) ==
  LET have == {k \in {"birthMonth", "weight", "age", "wageDollars"} : RawName(k) \in DOMAIN w}
  IN  [k \in have |-> IF k = "wageDollars" THEN w[RawName(k)] * 1000
                      ELSE LowByte(w[RawName(k)])]

\* the Worker built for the record at position index
ParseRecord(bytes, index) ==
  LET recordStart == index * recordSize
      head == [index |-> index, id |-> u16le(bytes, recordStart + idOffset)]
      body == [k \in FieldNames |-> ReadField(bytes, recordStart, FieldNamed(k))]
      w == Assign(head, body)
  IN  Assign(w, DerivedFields(w))

MarkerOk(bytes, index) == At(bytes, index * recordSize + markerOffset) = markerValue

\* the largest element of a non-empty set of integers
MaxOf(S) == CHOOSE x \in S : \A y \in S : y <= x

\* the smallest element of a non-empty set of integers
MinOf(S) == CHOOSE x \in S : \A y \in S : x <= y

parseWrestlerDat(bytes) ==
  LET v == validateWrestlerDatSchema(schema)
      fileSize == Len(bytes)
      totalRecords == fileSize \div recordSize
      badMarkers == {i \in 0..(totalRecords - 1) : ~MarkerOk(bytes, i)}
  IN  IF ~v.ok THEN v
      ELSE IF fileSize < recordSize THEN Fail("SizeMismatch", "File too small")
      ELSE IF fileSize % recordSize # 0 THEN Fail("SizeMismatch", "not a multiple of recordSize")
      ELSE IF badMarkers # {}
        THEN ErrAt("MarkerMismatch", "Invalid record marker", MinOf(badMarkers),
                   MinOf(badMarkers) * recordSize + markerOffset)
      ELSE [ok |-> TRUE, workers |-> [i \in 1..totalRecords |-> ParseRecord(bytes, i - 1)]]


\* ----------------------------------------------------------------- encode

\* Math.trunc: an integer is itself, and k + 1/2 is k when k >= 0 and k + 1
\* when k < 0 (towards zero)
Trunc(n) ==
  IF IsHalf(n) THEN (IF n - HalfBase >= 0 THEN n - HalfBase ELSE n - HalfBase + 1)
  ELSE n

\* a store that wraps modulo max + 1 instead of clamping
clampIntWrap(n, min, max) ==
  IF ~IsFinite(n) THEN min ELSE Trunc(n) % (max + 1)

clampInt(n, min, max) ==
  IF ~IsFinite(n) THEN min ELSE Max(min, Min(max, Trunc(n)))

writeU8(bytes, abs, v) == SetAt(bytes, abs, <<clampInt(v, 0, 255)>>)

writeU16LE(bytes, abs, v) ==
  LET n == clampInt(v, 0, 65535)
  IN  SetAt(bytes, abs, <<n % 256, (n \div 256) % 256>>)

\* a conversion that pads with NUL and keeps every character code as it is
toAsciiFixedBytesRaw(value, length) ==
  [j \in 1..length |-> IF j <= Len(value) THEN value[j] ELSE 0]

toAsciiFixedBytes(value, length) ==
  [j \in 1..length |->
     IF j <= Len(value) THEN (IF value[j] <= 127 THEN value[j] ELSE 63) ELSE 32]

\* a normalisation that cuts the finished name at maxLen, extension included
normalizePhotoNameCut(input, maxLen) ==
  LET s0 == Trim(input)
      lower == ToLower(s0)
      s1 == IF ~EndsWith(lower, ExtJpg) /\ ~EndsWith(lower, ExtJpeg) THEN s0 \o ExtJpg ELSE s0
  IN  IF s0 = <<>> THEN <<>> ELSE Take(s1, maxLen)

\* normalizePhotoNameForWrite of writeWrestlerDat.ts
normalizePhotoNameForWrite(input, maxLen) ==
  LET s0 == Trim(input)
      lower == ToLower(s0)
      s1 == IF ~EndsWith(lower, ExtJpg) /\ ~EndsWith(lower, ExtJpeg) THEN s0 \o ExtJpg ELSE s0
      lower2 == ToLower(s1)
      ext == IF EndsWith(lower2, ExtJpeg) THEN ExtJpeg ELSE ExtJpg
      extLen == Len(ext)
      baseMax == Max(0, maxLen - extLen)
      base == Take(s1, Len(s1) - extLen)
      s2 == IF Len(s1) > maxLen THEN Take(base, baseMax) \o ext ELSE s1
  IN  IF s0 = <<>> THEN <<>>
      ELSE IF Len(s2) > maxLen THEN Take(s2, maxLen) ELSE s2

\* no scan of the finished output
OutputMarkersUnchecked(out, rSize, mOffset, mValue) == TRUE

\* TRUE when validateOutputMarkers does not throw
validateOutputMarkers(out, rSize, mOffset, mValue) ==
  /\ Len(out) % rSize = 0
  /\ \A i \in 0..((Len(out) \div rSize) - 1) : At(out, i * rSize + mOffset) = mValue

\* a writer that stores a u8 field as two bytes
WriteFieldWide(out, w, recordStart, f) ==
  IF f.name \notin DOMAIN w THEN out
  ELSE IF f.type = "ascii_fixed"
    THEN SetAt(out, recordStart + f.offset,
               toAsciiFixedBytes(IF f.name = "photoName"
                                   THEN normalizePhotoNameForWrite(w[f.name], f.length)
                                   ELSE w[f.name],
                                 f.length))
  ELSE writeU16LE(out, recordStart + f.offset, w[f.name])

\* one field of one worker written into out (the body of the inner loop)
WriteField(out, w, recordStart, f) ==
  LET abs == recordStart + f.offset
  IN  IF f.name \notin DOMAIN w THEN out
      ELSE IF f.type = "u8" THEN writeU8(out, abs, w[f.name])
      ELSE IF f.type = "u16le" THEN writeU16LE(out, abs, w[f.name])
      ELSE SetAt(out, abs,
                 toAsciiFixedBytes(IF f.name = "photoName"
                                     THEN normalizePhotoNameForWrite(w[f.name], f.length)
                                     ELSE w[f.name],
                                   f.length))

\* the schema fields from the j-th on, written in schema order
RECURSIVE WriteFields(_, _, _, _)
WriteFields(out, w, recordStart, j) ==
  IF j > Len(schema.fields) THEN out
  ELSE WriteFields(WriteField(out, w, recordStart, schema.fields[j]), w, recordStart, j + 1)

\* the loop over the workers from the i-th on: the buffer, or the first throw
RECURSIVE WriteWorkers(_, _, _)
WriteWorkers(out, workers, i) ==
  IF i > Len(workers) THEN [ok |-> TRUE, bytes |-> out]
  ELSE LET index == workers[i].index
           totalRecords == Len(out) \div recordSize
       IN  IF ~IsFinite(index) \/ index < 0 \/ index >= totalRecords
             THEN ErrAt("IndexOutOfBounds", "Worker index out of bounds", index, -1)
           ELSE IF At(out, index * recordSize + markerOffset) # markerValue
             THEN ErrAt("MarkerMismatch", "Refusing to write", index,
                        index * recordSize + markerOffset)
           ELSE WriteWorkers(WriteFields(out, workers[i], index * recordSize, 1), workers, i + 1)

\* the working buffer writeWrestlerDat starts from: a copy of the caller's
CopyOf(originalBytes) == originalBytes

\* the caller's buffer once writeWrestlerDat returned or threw: every write
\* went to out, the copy `new Uint8Array(originalBytes)` made of a typed array
CallerBytesAfterWrite(originalBytes, workers) == originalBytes

writeWrestlerDat(originalBytes, workers) ==
  LET v == validateWrestlerDatSchema(schema)
      res == WriteWorkers(CopyOf(originalBytes), workers, 1)
  IN  IF ~v.ok THEN v
      ELSE IF Len(originalBytes) % recordSize # 0
        THEN Fail("SizeMismatch", "Input size is not multiple of recordSize")
      ELSE IF ~res.ok THEN res
      ELSE IF ~validateOutputMarkers(res.bytes, recordSize, markerOffset, markerValue)
        THEN Fail("MarkerMismatch", "Output corruption")
      ELSE res


\* ------------------------------------------------------ App.tsx: helpers

\* clamp of App.tsx (no truncation)
clamp(n, min, max) == IF ~IsFinite(n) THEN min ELSE Max(min, Min(max, n))

setU16LE(bytes, abs, value) ==
  LET v == clamp(Trunc(value), 0, 65535)
  IN  SetAt(bytes, abs, <<v % 256, (v \div 256) % 256>>)

concatBytes(a, b) == a \o b

\* a removal that drops everything from start on
sliceRemoveToEnd(bytes, start, end) == Slice(bytes, 0, start)

\* sliceRemove: the bytes before start followed by the bytes from end on
sliceRemove(bytes, start, end) == Slice(bytes, 0, start) \o Slice(bytes, end, Len(bytes))

\* TRUE when sliceRemove throws a RangeError: the result buffer would have a
\* negative length, or one of the two parts does not fit into it
sliceRemoveThrows(bytes, start, end) ==
  LET n == Len(bytes) - (end - start)
  IN  \/ n < 0
      \/ Len(Slice(bytes, 0, start)) > n
      \/ start + Len(Slice(bytes, end, Len(bytes))) > n

\* Employment strip offsets (record-local), scaled to the model's record:
\* bytes outside every schema field, one cleared to 0 and one set to 78.
EMPLOYMENT_CLEAR == << [off |-> 18, value |-> 0], [off |-> 19, value |-> 78] >>

RECURSIVE StripFrom(_, _)
StripFrom(recordBytes, i) ==
  IF i > Len(EMPLOYMENT_CLEAR) THEN recordBytes
  ELSE LET e == EMPLOYMENT_CLEAR[i]
       IN  StripFrom(IF e.off >= 0 /\ e.off < Len(recordBytes)
                       THEN SetAt(recordBytes, e.off, <<e.value % 256>>)
                       ELSE recordBytes,
                     i + 1)

stripEmploymentInRecordBytes(recordBytes) == StripFrom(recordBytes, 1)

\* s.replace(/\.(jpg|jpeg|png|gif)$/i, "") on the trimmed name
stripImageExtension(name) ==
  LET s == Trim(name)
      l == ToLower(s)
      n == IF EndsWith(l, ExtJpeg) THEN 5
           ELSE IF EndsWith(l, ExtJpg) \/ EndsWith(l, ExtPng) \/ EndsWith(l, ExtGif) THEN 4
           ELSE 0
  IN  Take(s, Len(s) - n)

\* the characters sanitizePhotoBaseName deletes: . : * ? " < > | / \
IllegalPhotoChar(c) == c \in {46, 58, 42, 63, 34, 60, 62, 124, 47, 92}

\* \s of a regular expression, among the codes 0..255
IsRegexSpace(c) == c \in {9, 10, 11, 12, 13, 32, 160}

RECURSIVE RemoveIllegal(_)
RemoveIllegal(s) ==
  IF s = <<>> THEN s
  ELSE IF IllegalPhotoChar(Head(s)) THEN RemoveIllegal(Tail(s))
  ELSE <<Head(s)>> \o RemoveIllegal(Tail(s))

\* s.replace(/\s+/g, " ")
RECURSIVE CollapseSpaces(_)
CollapseSpaces(s) ==
  IF s = <<>> THEN s
  ELSE IF IsRegexSpace(Head(s))
    THEN <<32>> \o CollapseSpaces(TrimLeft(Tail(s)))
  ELSE <<Head(s)>> \o CollapseSpaces(Tail(s))

sanitizePhotoBaseName(input) == Trim(CollapseSpaces(RemoveIllegal(Trim(input))))

truncateAscii(s, maxLen) == IF Len(s) <= maxLen THEN s ELSE Take(s, maxLen)

sanitizeAndTruncatePhotoBase(input) == truncateAscii(sanitizePhotoBaseName(input), 20)

\* normalizePhotoNameForWrite of App.tsx
appNormalizePhotoNameForWrite(inputBase) ==
  LET base == sanitizeAndTruncatePhotoBase(stripImageExtension(inputBase))
  IN  IF base = <<>> THEN StrNone
      ELSE IF ToLower(base) = ToLower(StrNone) THEN StrNone
      ELSE base \o ExtJpg

\* the decimal digits of n >= 0 (template literal `${i}`)
RECURSIVE DecStr(_)
DecStr(n) == IF n < 10 THEN <<48 + n>> ELSE DecStr(n \div 10) \o <<48 + (n % 10)>>

StrNewWorker == <<78, 101, 119, 32, 87, 111, 114, 107, 101, 114>>   \* "New Worker"
StrCopySuffix == <<32, 40, 99, 111, 112, 121, 41>>                  \* " (copy)"

\* `${b} (${i})`
Suffixed(b, i) == b \o <<32, 40>> \o DecStr(i) \o <<41>>

\* a loop that always answers with the first suffix
SuffixOne(b, existing, i) == Suffixed(b, 1)

\* the loop of makeUniqueFullName from i on, for (i; i < 999; i++): the first
\* candidate that is free, and " (copy)" when the loop ends without one.  Of
\* the candidates i .. i + |existing| one is free, so the loop does not get
\* beyond them.
UniqueFrom(b, existing, i) ==
  LET free == {n \in i..(i + Cardinality(existing)) :
                 n < 999 /\ ToLower(Suffixed(b, n)) \notin existing}
  IN  IF free = {} THEN b \o StrCopySuffix ELSE Suffixed(b, MinOf(free))

makeUniqueFullName(base, existing) ==
  LET trimmed == Trim(base)
      b == IF trimmed = <<>> THEN StrNewWorker ELSE trimmed
  IN  IF ToLower(b) \notin existing THEN b ELSE UniqueFrom(b, existing, 1)

\* getNum(w, k1, k2): the first of the keys that w has (numeric), else 0
getNum(w, keys) ==
  LET have == {i \in 1..Len(keys) : keys[i] \in DOMAIN w}
  IN  IF have = {} THEN 0 ELSE w[keys[MinOf(have)]]

\* setNumPatch(w, preferred, fallback, value)
setNumPatch(w, preferred, fallback, value) ==
  IF preferred \in DOMAIN w THEN [k \in {preferred} |-> value]
  ELSE IF fallback \in DOMAIN w THEN [k \in {fallback} |-> value]
  ELSE [k \in {preferred} |-> value]

\* the trimmed name with its case kept
NameKeyExact(w) == IF "fullName" \in DOMAIN w THEN Trim(w.fullName) ELSE <<>>

\* String(w.fullName ?? "").trim().toLowerCase()
NameKey(w) == IF "fullName" \in DOMAIN w THEN ToLower(Trim(w.fullName)) ELSE <<>>

\* workers.reduce((m, w) => Math.max(m, Number(w.id ?? 0)), 0)
MaxId(ws) == IF ws = <<>> THEN 0 ELSE Max(0, CHOOSE m \in {ws[i].id : i \in 1..Len(ws)} :
                                              \A i \in 1..Len(ws) : ws[i].id <= m)


\* --------------------------------------------------- validateWrestlerDat.ts

\* the record size validateWrestlerDatBytes insists on (scaled with the layout)
ExpectedRecordSize == 20

\* TRUE when checkField passes for a field of that offset, type and length
checkField(f) ==
  /\ f.offset >= 0
  /\ IF f.type = "u8" THEN f.offset <= schema.recordSize - 1
     ELSE IF f.type = "u16le" THEN f.offset <= schema.recordSize - 2
     ELSE IF f.type = "ascii_fixed"
       THEN f.length > 0 /\ f.offset + f.length <= schema.recordSize
     ELSE FALSE

validateWrestlerDatBytes(bytes) ==
  LET fileSize == Len(bytes)
      totalRecords == fileSize \div schema.recordSize
      badMarkers == {i \in 0..(totalRecords - 1) : ~MarkerOk(bytes, i)}
  IN  IF schema.recordSize # ExpectedRecordSize
        THEN Fail("SchemaInvalid", "Schema recordSize must be 307")
      ELSE IF fileSize < schema.recordSize THEN Fail("SizeMismatch", "File too small")
      ELSE IF fileSize % schema.recordSize # 0 THEN Fail("SizeMismatch", "not multiple")
      ELSE IF badMarkers # {}
        THEN ErrAt("MarkerMismatch", "Invalid marker", MinOf(badMarkers),
                   MinOf(badMarkers) * schema.recordSize + markerOffset)
      ELSE IF ~checkField([offset |-> markerOffset, type |-> "u8", length |-> 0])
        THEN Fail("SchemaInvalid", "__marker")
      ELSE IF ~checkField([offset |-> idOffset, type |-> "u16le", length |-> 0])
        THEN Fail("SchemaInvalid", "__workerId")
      ELSE IF \E i \in 1..Len(schema.fields) : ~checkField(schema.fields[i])
        THEN Fail("SchemaInvalid", "field out of record bounds")
      ELSE Pass


\* ------------------------------------------------------------------ state

\* bounds of the model
MaxSteps == 5        \* handler invocations (open, edit, toggle, dialog, save) in a run
MaxSaves == 2        \* saves in flight at once
MaxClock == 1        \* seconds the clock of the backup time stamp can take

VARIABLES
  filePath,             \* useState<string | null>: "" is null
  rawBytes,             \* useState<Uint8Array | null>
  workers,              \* useState<Worker[]>
  selectedForDelete,    \* useState<Set<number>>
  modal,                \* which modal dialog is open: "none", "import", "csv"
  importSourceBytes,    \* useState<Uint8Array | null>
  importSourceWorkers,  \* useState<Worker[]>
  importSelection,      \* useState<Set<number>>
  csvPlannedUpdates,    \* useState<CsvUpdatePlan[]>
  csvPlannedNewRows,    \* useState<CsvNewRowPlan[]>
  lastOp,               \* the handler that ran last, and what it reported
  steps,                \* how many handlers were invoked so far
  disk,                 \* the files: path -> bytes
  backups,              \* the backup files written: {[path, ts, bytes]}
  clock,                \* the second of the last time stamp taken
  saves,                \* the onSave calls in flight, each at one of its awaits
  codec,                \* a function called directly: its input and its result
  vcheck                \* the schema validator called directly

editorVars == <<filePath, rawBytes, workers, selectedForDelete, modal, importSourceBytes,
                importSourceWorkers, importSelection, csvPlannedUpdates, csvPlannedNewRows,
                lastOp, steps>>
ioVars == <<disk, backups, clock, saves>>
vars == <<editorVars, ioVars, codec, vcheck>>

\* a null Uint8Array state
null == <<-1>>

\* one record of a file: marker, id, 2 name bytes, 8 photo bytes, age, wage,
\* flag and the two employment bytes
MkRecord(marker, id, name, photo, age, wage, flag, e1, e2) ==
  <<marker, id % 256, id \div 256>> \o name \o photo
    \o <<age % 256, age \div 256, wage % 256, wage \div 256, flag, e1, e2>>

PhotoNone == <<78, 111, 110, 101, 32, 32, 32, 32>>     \* "None    "
PhotoP    == <<112, 46, 106, 112, 103, 0, 0, 0>>       \* "p.jpg" NUL-padded

Paths == {"a.dat", "b.dat", "x.dat", "y.dat"}

\* the files the user can pick: a.dat holds "A" and "B"; b.dat holds "c" and
\* "C", two names that differ in case only, and the largest id a record can
\* store; the second record of x.dat has a wrong marker and y.dat ends in
\* the middle of a record
InitialDisk ==
  [p \in Paths |->
     IF p = "a.dat"
       THEN MkRecord(52, 1, <<65, 32>>, PhotoNone, 30, 10, 1, 1, 1)
              \o MkRecord(52, 2, <<66, 0>>, PhotoP, 25, 5, 0, 0, 0)
     ELSE IF p = "b.dat"
       THEN MkRecord(52, 65535, <<99, 32>>, PhotoNone, 40, 400, 2, 1, 0)
              \o MkRecord(52, 1, <<67, 32>>, PhotoP, 300, 7, 0, 0, 1)
     ELSE IF p = "x.dat"
       THEN MkRecord(52, 1, <<88, 32>>, PhotoNone, 30, 10, 1, 0, 0)
              \o MkRecord(51, 2, <<89, 32>>, PhotoNone, 30, 10, 1, 0, 0)
       ELSE MkRecord(52, 1, <<88, 32>>, PhotoNone, 30, 10, 1, 0, 0) \o <<52, 2, 0>>]

EditorInit ==
  /\ filePath = ""
  /\ rawBytes = null
  /\ workers = <<>>
  /\ selectedForDelete = {}
  /\ modal = "none"
  /\ importSourceBytes = null
  /\ importSourceWorkers = <<>>
  /\ importSelection = {}
  /\ csvPlannedUpdates = <<>>
  /\ csvPlannedNewRows = <<>>
  /\ lastOp = [op |-> "init", ok |-> TRUE, skippedDupes |-> <<>>]
  /\ steps = 0
  /\ disk = InitialDisk
  /\ backups = {}
  /\ clock = 0
  /\ saves = <<>>

CodecIdle == [op |-> "none"]
SchemaIdle == [op |-> "none"]

Init ==
  /\ EditorInit
  /\ codec = CodecIdle
  /\ vcheck = SchemaIdle

\* what a handler reports (setStatus / setImportInfo)
Report(op, ok) == [op |-> op, ok |-> ok, skippedDupes |-> <<>>]

\* ------------------------------------------------------------------ onOpen

\* a handler is invoked by the user: the run's budget of invocations
Invoke ==
  /\ steps < MaxSteps
  /\ steps' = steps + 1

\* a handler resumes after an await: no new invocation
Resume ==
  steps' = steps

\* the photoName normalisation onOpen applies to each parsed worker
OpenNormalize(w) ==
  Assign(w, [k \in {"photoName"} |->
               IF "photoName" \in DOMAIN w
                 THEN (LET clean == sanitizeAndTruncatePhotoBase(stripImageExtension(w.photoName))
                       IN  IF clean = <<>> THEN StrNone ELSE clean)
                 ELSE StrNone])

\* onOpen once the user picked path and readFile returned its bytes
onOpen(path) ==
  LET bytes == disk[path]
      v == validateWrestlerDatBytes(bytes)
      parsed == parseWrestlerDat(bytes)
  IN  /\ Invoke
      /\ modal = "none"
      /\ IF v.ok /\ parsed.ok
           THEN /\ filePath' = path
                /\ rawBytes' = bytes
                /\ workers' = [i \in 1..Len(parsed.workers) |-> OpenNormalize(parsed.workers[i])]
                /\ selectedForDelete' = {}
                /\ lastOp' = Report("onOpen", TRUE)
           ELSE /\ UNCHANGED <<filePath, rawBytes, workers, selectedForDelete>>
                /\ lastOp' = Report("onOpen", FALSE)
      /\ UNCHANGED <<modal, importSourceBytes, importSourceWorkers, importSelection,
                     csvPlannedUpdates, csvPlannedNewRows, ioVars, codec, vcheck>>

\* ---------------------------------------------------------- onAddNewWorker

\* the photoName bytes of a new record: "None" padded with spaces
NonePadded(length) == [i \in 1..length |-> IF i <= Len(StrNone) THEN StrNone[i] ELSE 32]

HasPhotoField == \E i \in 1..Len(schema.fields) : schema.fields[i].name = "photoName"

\* (schema.fields).find(f => f.name === "photoName"): the first such field
PhotoField ==
  schema.fields[MinOf({i \in 1..Len(schema.fields) : schema.fields[i].name = "photoName"})]

\* a new record that is left without its marker byte
BlankRecordUnmarked(newId) ==
  stripEmploymentInRecordBytes(setU16LE(Fill(recordSize, 0), 1, newId))

\* the bytes of the record onAddNewWorker and applyCsvImport append
BlankRecord(newId) ==
  LET rec0 == Fill(recordSize, 0)
      rec1 == SetAt(rec0, markerOffset, <<markerValue % 256>>)
      rec2 == setU16LE(rec1, 1, newId)
      rec3 == IF HasPhotoField /\ PhotoField.length > 0
                THEN SetAt(rec2, PhotoField.offset, NonePadded(PhotoField.length))
                ELSE rec2
  IN  stripEmploymentInRecordBytes(rec3)

\* the Worker object onAddNewWorker appends
BlankWorker(newIndex, newId) ==
  LET head == [index |-> newIndex, id |-> newId]
      body == [k \in FieldNames |->
                 IF FieldNamed(k).type = "ascii_fixed"
                   THEN (IF k = "photoName" THEN StrNone ELSE <<>>)
                   ELSE 0]
      extra == [birthMonth |-> 0, age |-> 0, weight |-> 72, wageDollars |-> 0]
  IN  Assign(Assign(head, body), extra)

onAddNewWorker ==
  LET totalRecords == Len(rawBytes) \div recordSize
      newIndex == totalRecords
      newId == MaxId(workers) + 1
  IN  /\ Invoke
      /\ modal = "none"
      /\ rawBytes # null
      /\ rawBytes' = concatBytes(rawBytes, BlankRecord(newId))
      /\ workers' = Append(workers, BlankWorker(newIndex, newId))
      /\ lastOp' = Report("onAddNewWorker", TRUE)
      /\ UNCHANGED <<filePath, selectedForDelete, modal, importSourceBytes, importSourceWorkers,
                     importSelection, csvPlannedUpdates, csvPlannedNewRows, ioVars, codec, vcheck>>

\* ------------------------------------------------------------- onCopyWorker

\* the indices the list shows: onCopyWorker, onDeleteWorker and the delete
\* check boxes are called with w.index of a listed worker
ListedIndices == {workers[i].index : i \in 1..Len(workers)}

\* workers.find(w => w.index === recordIndex)
FindByIndex(ws, recordIndex) ==
  ws[MinOf({i \in 1..Len(ws) : ws[i].index = recordIndex})]

\* the bytes of the record onCopyWorker appends
CopiedRecord(bytes, recordIndex, newId) ==
  LET srcStart == recordIndex * recordSize
      rec0 == Slice(bytes, srcStart, srcStart + recordSize)
      rec1 == SetAt(rec0, markerOffset, <<markerValue % 256>>)
      rec2 == setU16LE(rec1, 1, newId)
  IN  stripEmploymentInRecordBytes(rec2)

\* the Worker object onCopyWorker appends
CopiedWorker(ws, src, newIndex, newId) ==
  LET out0 == Assign(src, [index |-> newIndex, id |-> newId])
      photo == LET p == IF "photoName" \in DOMAIN out0 THEN out0.photoName ELSE StrNone
                   clean == sanitizeAndTruncatePhotoBase(stripImageExtension(p))
               IN  IF clean = <<>> THEN StrNone ELSE clean
      existing == {NameKey(ws[i]) : i \in 1..Len(ws)}
      full == IF "fullName" \in DOMAIN out0 THEN Trim(out0.fullName) ELSE <<>>
      short == IF "shortName" \in DOMAIN out0 THEN Trim(out0.shortName) ELSE <<>>
      baseName == IF full # <<>> THEN full ELSE IF short # <<>> THEN short ELSE StrNewWorker
  IN  Assign(out0, [photoName |-> photo, fullName |-> makeUniqueFullName(baseName, existing)])

onCopyWorker(recordIndex) ==
  LET totalRecords == Len(rawBytes) \div recordSize
      newIndex == totalRecords
      newId == MaxId(workers) + 1
  IN  /\ Invoke
      /\ modal = "none"
      /\ rawBytes # null
      /\ IF \E i \in 1..Len(workers) : workers[i].index = recordIndex
           THEN /\ rawBytes' = concatBytes(rawBytes, CopiedRecord(rawBytes, recordIndex, newId))
                /\ workers' = Append(workers,
                                     CopiedWorker(workers, FindByIndex(workers, recordIndex),
                                                  newIndex, newId))
                /\ lastOp' = Report("onCopyWorker", TRUE)
           ELSE /\ UNCHANGED <<rawBytes, workers>>
                /\ lastOp' = Report("onCopyWorker", FALSE)
      /\ UNCHANGED <<filePath, selectedForDelete, modal, importSourceBytes, importSourceWorkers,
                     importSelection, csvPlannedUpdates, csvPlannedNewRows, ioVars, codec, vcheck>>


\* ----------------------------------------------------------- onDeleteWorker

\* a filter that removes nothing
FilterNothing(ws, idx) == ws

\* workers.filter(w => w.index !== idx).map(w => w.index > idx ? {...w, index: w.index - 1} : w)
RECURSIVE FilterIndex(_, _)
FilterIndex(ws, idx) ==
  IF ws = <<>> THEN <<>>
  ELSE (IF Head(ws).index # idx THEN <<Head(ws)>> ELSE <<>>) \o FilterIndex(Tail(ws), idx)

\* a removal that leaves the indices of the later workers as they were
RemoveKeepIndex(ws, idx) == FilterIndex(ws, idx)

RemoveAndRenumber(ws, idx) ==
  LET kept == FilterIndex(ws, idx)
  IN  [i \in 1..Len(kept) |->
         IF kept[i].index > idx THEN Assign(kept[i], [index |-> kept[i].index - 1]) ELSE kept[i]]

\* the renumbering of the delete check boxes in onDeleteWorker
RenumberSelection(sel, recordIndex) ==
  {IF idx > recordIndex THEN idx - 1 ELSE idx : idx \in sel \ {recordIndex}}

onDeleteWorker(recordIndex) ==
  LET totalRecords == Len(rawBytes) \div recordSize
      start == recordIndex * recordSize
      end == start + recordSize
  IN  /\ Invoke
      /\ modal = "none"
      /\ rawBytes # null
      /\ IF recordIndex < 0 \/ recordIndex >= totalRecords
           THEN /\ UNCHANGED <<rawBytes, workers, selectedForDelete>>
                /\ lastOp' = Report("onDeleteWorker", FALSE)
           ELSE /\ rawBytes' = sliceRemove(rawBytes, start, end)
                /\ workers' = RemoveAndRenumber(workers, recordIndex)
                /\ selectedForDelete' = RenumberSelection(selectedForDelete, recordIndex)
                /\ lastOp' = Report("onDeleteWorker", TRUE)
      /\ UNCHANGED <<filePath, modal, importSourceBytes, importSourceWorkers,
                     importSelection, csvPlannedUpdates, csvPlannedNewRows, ioVars, codec, vcheck>>

\* --------------------------------------------------------- commitMultiDelete

toggleSelectedForDelete(recordIndex, checked) ==
  /\ Invoke
  /\ modal = "none"
  /\ rawBytes # null
  /\ selectedForDelete' = IF checked THEN selectedForDelete \cup {recordIndex}
                          ELSE selectedForDelete \ {recordIndex}
  /\ selectedForDelete' # selectedForDelete
  /\ lastOp' = Report("toggleSelectedForDelete", TRUE)
  /\ UNCHANGED <<filePath, rawBytes, workers, modal, importSourceBytes, importSourceWorkers,
                 importSelection, csvPlannedUpdates, csvPlannedNewRows, ioVars, codec, vcheck>>

\* the indices in ascending order
RECURSIVE SortAsc(_)
SortAsc(S) ==
  IF S = {} THEN <<>>
  ELSE LET m == CHOOSE x \in S : \A y \in S : x <= y
       IN  <<m>> \o SortAsc(S \ {m})

\* Array.from(set).sort((a, b) => b - a)
RECURSIVE SortDesc(_)
SortDesc(S) ==
  IF S = {} THEN <<>>
  ELSE LET m == CHOOSE x \in S : \A y \in S : y <= x
       IN  <<m>> \o SortDesc(S \ {m})

\* the loop of commitMultiDelete from the i-th index on: the bytes and
\* workers it ends with, or ok = FALSE when sliceRemove throws
RECURSIVE MultiDeleteLoop(_, _, _, _)
MultiDeleteLoop(bytes, ws, indicesDesc, i) ==
  IF i > Len(indicesDesc) THEN [ok |-> TRUE, bytes |-> bytes, workers |-> ws]
  ELSE LET idx == indicesDesc[i]
           start == idx * recordSize
           end == start + recordSize
       IN  IF sliceRemoveThrows(bytes, start, end)
             THEN [ok |-> FALSE, bytes |-> bytes, workers |-> ws]
             ELSE MultiDeleteLoop(sliceRemove(bytes, start, end), RemoveAndRenumber(ws, idx),
                                  indicesDesc, i + 1)

\* commitMultiDelete; confirmed is the answer to window.confirm
commitMultiDelete(confirmed) ==
  LET res == MultiDeleteLoop(rawBytes, workers, SortDesc(selectedForDelete), 1)
  IN  /\ Invoke
      /\ modal = "none"
      /\ rawBytes # null
      /\ selectedForDelete # {}
      /\ IF confirmed /\ res.ok
           THEN /\ rawBytes' = res.bytes
                /\ workers' = res.workers
                /\ selectedForDelete' = {}
                /\ lastOp' = [op |-> "commitMultiDelete", ok |-> TRUE, skippedDupes |-> <<>>,
                              deleted |-> Cardinality(selectedForDelete)]
           ELSE /\ UNCHANGED <<rawBytes, workers, selectedForDelete>>
                /\ lastOp' = Report("commitMultiDelete", FALSE)
      /\ UNCHANGED <<filePath, modal, importSourceBytes, importSourceWorkers,
                     importSelection, csvPlannedUpdates, csvPlannedNewRows, ioVars, codec, vcheck>>


\* ------------------------------------------------------ import from a file

\* a < b for the strings the import list is sorted by (localeCompare on the
\* lower-cased names, taken here as the order of the character codes)
RECURSIVE LexLess(_, _)
LexLess(a, b) ==
  IF b = <<>> THEN FALSE
  ELSE IF a = <<>> THEN TRUE
  ELSE IF Head(a) # Head(b) THEN Head(a) < Head(b)
  ELSE LexLess(Tail(a), Tail(b))

SortName(w) == IF "fullName" \in DOMAIN w THEN ToLower(w.fullName) ELSE <<>>

RECURSIVE InsertByName(_, _)
InsertByName(sorted, w) ==
  IF sorted = <<>> THEN <<w>>
  ELSE IF ~LexLess(SortName(w), SortName(sorted[Len(sorted)])) THEN Append(sorted, w)
  ELSE Append(InsertByName(SubSeq(sorted, 1, Len(sorted) - 1), w), sorted[Len(sorted)])

RECURSIVE SortByName(_)
SortByName(ws) ==
  IF ws = <<>> THEN <<>>
  ELSE InsertByName(SortByName(SubSeq(ws, 1, Len(ws) - 1)), ws[Len(ws)])

\* onImportWrestler once the user picked path and readFile returned its bytes
onImportWrestler(path) ==
  LET bytes == disk[path]
      v == validateWrestlerDatBytes(bytes)
      parsed == parseWrestlerDat(bytes)
  IN  /\ Invoke
      /\ modal = "none"
      /\ rawBytes # null
      /\ IF v.ok /\ parsed.ok
           THEN /\ importSourceBytes' = bytes
                /\ importSourceWorkers' = SortByName(parsed.workers)
                /\ importSelection' = {}
                /\ modal' = "import"
                /\ lastOp' = Report("onImportWrestler", TRUE)
           ELSE /\ UNCHANGED <<importSourceBytes, importSourceWorkers, importSelection, modal>>
                /\ lastOp' = Report("onImportWrestler", FALSE)
      /\ UNCHANGED <<filePath, rawBytes, workers, selectedForDelete,
                     csvPlannedUpdates, csvPlannedNewRows, ioVars, codec, vcheck>>

toggleImportSelection(sourceIndex, checked) ==
  /\ Invoke
  /\ modal = "import"
  /\ importSelection' = IF checked THEN importSelection \cup {sourceIndex}
                        ELSE importSelection \ {sourceIndex}
  /\ importSelection' # importSelection
  /\ lastOp' = Report("toggleImportSelection", TRUE)
  /\ UNCHANGED <<filePath, rawBytes, workers, selectedForDelete, modal, importSourceBytes,
                 importSourceWorkers, csvPlannedUpdates, csvPlannedNewRows, ioVars, codec, vcheck>>

closeImportModal ==
  /\ Invoke
  /\ modal = "import"
  /\ modal' = "none"
  /\ importSelection' = {}
  /\ importSourceWorkers' = <<>>
  /\ importSourceBytes' = null
  /\ lastOp' = Report("closeImportModal", TRUE)
  /\ UNCHANGED <<filePath, rawBytes, workers, selectedForDelete,
                 csvPlannedUpdates, csvPlannedNewRows, ioVars, codec, vcheck>>

\* importSourceWorkers.filter(w => importSelection.has(w.index))
RECURSIVE FilterSelected(_, _)
FilterSelected(ws, sel) ==
  IF ws = <<>> THEN <<>>
  ELSE (IF Head(ws).index \in sel THEN <<Head(ws)>> ELSE <<>>) \o FilterSelected(Tail(ws), sel)

\* the bytes of the record commitImportSelected appends for source worker src
ImportedRecord(srcBytes, src, newId) ==
  LET srcStart == src.index * recordSize
      rec0 == Slice(srcBytes, srcStart, srcStart + recordSize)
      rec1 == SetAt(rec0, markerOffset, <<markerValue % 256>>)
      rec2 == setU16LE(rec1, 1, newId)
  IN  stripEmploymentInRecordBytes(rec2)

\* the loop of commitImportSelected from the i-th selected worker on; acc is
\* [nextBytes, maxId, imported, skippedDupes, skippedEmpty, existingNames]
RECURSIVE ImportLoop(_, _, _, _)
ImportLoop(acc, selected, srcBytes, i) ==
  IF i > Len(selected) THEN acc
  ELSE LET src == selected[i]
           name == IF "fullName" \in DOMAIN src THEN Trim(src.fullName) ELSE <<>>
           key == ToLower(name)
           newIndex == Len(acc.nextBytes) \div recordSize
           newId == acc.maxId + 1
           srcEnd == src.index * recordSize + recordSize
       IN  IF name = <<>>
             THEN ImportLoop([acc EXCEPT !.skippedEmpty = Append(@, name)], selected, srcBytes, i + 1)
           ELSE IF key \in acc.existingNames
             THEN ImportLoop([acc EXCEPT !.skippedDupes = Append(@, name)], selected, srcBytes, i + 1)
           ELSE IF srcEnd > Len(srcBytes)
             THEN ImportLoop([acc EXCEPT !.maxId = newId, !.skippedEmpty = Append(@, name)],
                             selected, srcBytes, i + 1)
           ELSE ImportLoop([acc EXCEPT
                              !.nextBytes = concatBytes(@, ImportedRecord(srcBytes, src, newId)),
                              !.maxId = newId,
                              !.imported = Append(@, Assign(src, [index |-> newIndex, id |-> newId])),
                              !.existingNames = @ \cup {key}],
                           selected, srcBytes, i + 1)

ImportResult ==
  ImportLoop([nextBytes |-> rawBytes, maxId |-> MaxId(workers), imported |-> <<>>,
              skippedDupes |-> <<>>, skippedEmpty |-> <<>>,
              existingNames |-> {NameKey(workers[i]) : i \in 1..Len(workers)}],
             FilterSelected(importSourceWorkers, importSelection), importSourceBytes, 1)

commitImportSelected ==
  /\ Invoke
  /\ modal = "import"
  /\ rawBytes # null
  /\ importSourceBytes # null
  /\ IF importSelection # {} /\ ImportResult.imported # <<>>
       THEN /\ rawBytes' = ImportResult.nextBytes
            /\ workers' = workers \o ImportResult.imported
            /\ lastOp' = [op |-> "commitImportSelected", ok |-> TRUE,
                          skippedDupes |-> ImportResult.skippedDupes]
            \* closeImportModal()
            /\ modal' = "none"
            /\ importSelection' = {}
            /\ importSourceWorkers' = <<>>
            /\ importSourceBytes' = null
       ELSE /\ UNCHANGED <<rawBytes, workers, modal, importSelection, importSourceWorkers,
                           importSourceBytes>>
            /\ lastOp' = [op |-> "commitImportSelected", ok |-> FALSE,
                          skippedDupes |-> IF importSelection = {} THEN <<>>
                                           ELSE ImportResult.skippedDupes]
  /\ UNCHANGED <<filePath, selectedForDelete, csvPlannedUpdates, csvPlannedNewRows,
                 ioVars, codec, vcheck>>


\* ------------------------------------------------------------- CSV import

\* The rows of the CSV files the user can pick.  A row has the columns
\* workerId, recordNumber, fullName and age; -1 is an empty cell.
CsvRow(workerId, recordNumber, fullName, age) ==
  [workerId |-> workerId, recordNumber |-> recordNumber, fullName |-> fullName, age |-> age]

CsvFiles ==
  { << CsvRow(-1, -1, <<68>>, 7) >>,                                  \* "D": a new row
    << CsvRow(-1, -1, <<68>>, -1), CsvRow(-1, -1, <<100, 32>>, -1) >>, \* "D", "d ": a duplicate
    << CsvRow(1, -1, <<69>>, 9) >>,                                   \* id 1 renamed "E"
    << CsvRow(-1, 0, <<65>>, 80), CsvRow(-1, -1, <<70>>, -1) >> }     \* a bad age; "F" new

\* Map.get after the Map.set of every worker: the last worker with that key
LastWith(ws, key, value) ==
  LET hits == {i \in 1..Len(ws) : ws[i][key] = value}
  IN  IF hits = {} THEN <<>> ELSE <<ws[CHOOSE i \in hits : \A j \in hits : j <= i]>>

\* workers.find(w => name key of w = key)
FirstNamed(ws, key) ==
  LET hits == {i \in 1..Len(ws) : NameKey(ws[i]) = key}
  IN  IF hits = {} THEN <<>> ELSE <<ws[MinOf(hits)]>>

\* the patch onImportCsv builds from a row (fullName, and the age when given)
CsvPatch(r, fullName) ==
  IF r.age >= 0
    THEN [fullName |-> fullName, ageRaw |-> LowByte(r.age), age |-> LowByte(r.age)]
    ELSE [fullName |-> fullName]

\* the loop over the rows from the i-th on; plan is [updates, newRows, nameSet]
RECURSIVE CsvPlanLoop(_, _, _)
CsvPlanLoop(plan, rows, i) ==
  IF i > Len(rows) THEN plan
  ELSE LET r == rows[i]
           fullName == Trim(r.fullName)
           lenFull == IF "fullName" \in FieldNames THEN FieldNamed("fullName").length ELSE 25
           matchById == IF r.workerId >= 0 THEN LastWith(workers, "id", r.workerId) ELSE <<>>
           matchByIndex == IF matchById = <<>> /\ r.recordNumber >= 0
                             THEN LastWith(workers, "index", r.recordNumber) ELSE <<>>
           matchByName == IF matchById = <<>> /\ matchByIndex = <<>>
                            THEN FirstNamed(workers, ToLower(fullName)) ELSE <<>>
           target == IF matchById # <<>> THEN matchById
                     ELSE IF matchByIndex # <<>> THEN matchByIndex ELSE matchByName
           rowBad == r.age > 70
           key == ToLower(fullName)
           next == i + 1
       IN  IF fullName = <<>> \/ Len(fullName) > lenFull \/ rowBad
             THEN CsvPlanLoop(plan, rows, next)
           ELSE IF target # <<>>
             THEN (IF key # <<>> /\ key # NameKey(target[1]) /\ key \in plan.nameSet
                     THEN CsvPlanLoop(plan, rows, next)
                     ELSE CsvPlanLoop([plan EXCEPT !.updates =
                                         Append(@, [targetIndex |-> target[1].index,
                                                    patch |-> CsvPatch(r, fullName)])],
                                      rows, next))
           ELSE IF key \in plan.nameSet THEN CsvPlanLoop(plan, rows, next)
           ELSE CsvPlanLoop([plan EXCEPT !.newRows = Append(@, [data |-> CsvPatch(r, fullName)]),
                                         !.nameSet = @ \cup {key}],
                            rows, next)

\* onImportCsv once the user picked the file and its rows were parsed
onImportCsv(rows) ==
  LET plan == CsvPlanLoop([updates |-> <<>>, newRows |-> <<>>,
                           nameSet |-> {NameKey(workers[i]) : i \in 1..Len(workers)}],
                          rows, 1)
  IN  /\ Invoke
      /\ modal = "none"
      /\ rawBytes # null
      /\ csvPlannedUpdates' = plan.updates
      /\ csvPlannedNewRows' = plan.newRows
      /\ modal' = "csv"
      /\ lastOp' = Report("onImportCsv", TRUE)
      /\ UNCHANGED <<filePath, rawBytes, workers, selectedForDelete, importSourceBytes,
                     importSourceWorkers, importSelection, ioVars, codec, vcheck>>

closeCsvModal ==
  /\ Invoke
  /\ modal = "csv"
  /\ modal' = "none"
  /\ csvPlannedUpdates' = <<>>
  /\ csvPlannedNewRows' = <<>>
  /\ lastOp' = Report("closeCsvModal", TRUE)
  /\ UNCHANGED <<filePath, rawBytes, workers, selectedForDelete, importSourceBytes,
                 importSourceWorkers, importSelection, ioVars, codec, vcheck>>

skillKeys == {"brawlingRaw", "technicalRaw", "speedRaw", "stiffnessRaw", "sellingRaw",
              "overnessRaw", "charismaRaw", "attitudeRaw", "behaviourRaw"}

\* setLowByteU16(oldVal, lowByte)
setLowByteU16(oldVal, lowByte) == ((oldVal \div 256) % 256) * 256 + (lowByte % 256)

\* new Map of the planned updates: the last patch planned for that index
PatchFor(updates, index) ==
  LET hits == {i \in 1..Len(updates) : updates[i].targetIndex = index}
  IN  IF hits = {} THEN <<>> ELSE <<updates[CHOOSE i \in hits : \A j \in hits : j <= i].patch>>

\* the worker applyCsvImport makes of w and the patch planned for it
CsvUpdated(w, p) ==
  LET merged == [k \in DOMAIN w \cup DOMAIN p |->
                   IF k \in DOMAIN p
                     THEN (IF k \in skillKeys
                             THEN setLowByteU16(IF k \in DOMAIN w THEN w[k] ELSE 0, p[k])
                             ELSE p[k])
                     ELSE w[k]]
  IN  IF getNum(merged, <<"genderRaw", "gender">>) = 65535
        THEN Assign(merged, [divaRaw |-> 0]) ELSE merged

\* the worker applyCsvImport creates for a new row
CsvNewWorker(data, newIndex, newId) ==
  LET base == [index |-> newIndex, id |-> newId,
               genderRaw |-> IF "genderRaw" \in DOMAIN data THEN data.genderRaw ELSE 65535,
               fullName |-> Trim(data.fullName)]
      copied == {"shortName", "photoName", "speaksRaw", "primaryFinisherName",
                 "secondaryFinisherName", "pfTypeFlagA", "pfTypeFlagB", "pfTypeFlagC",
                 "sfTypeFlagA", "sfTypeFlagB", "sfTypeFlagC", "superstarLookRaw",
                 "menacingRaw", "fonzFactorRaw", "trainerRaw", "announcerRaw", "bookerRaw",
                 "divaRaw"} \cup skillKeys
      low == {"nationalityRaw", "birthMonthRaw", "weightRaw", "ageRaw"}
      plain == [k \in copied \cap DOMAIN data |-> data[k]]
      lowRaw == [k \in low \cap DOMAIN data |-> LowByte(data[k])]
      lowDerived == [k \in {d \in {"nationality", "birthMonth", "weight", "age"} :
                              RawName(d) \in DOMAIN data} |-> LowByte(data[RawName(k)])]
      wage == IF "wageThousandsRaw" \in DOMAIN data
                THEN [wageThousandsRaw |-> data.wageThousandsRaw,
                      wageDollars |-> IF "wageDollars" \in DOMAIN data THEN data.wageDollars
                                      ELSE data.wageThousandsRaw * 1000]
                ELSE [k \in {} |-> 0]
      w == Assign(Assign(Assign(Assign(base, plain), lowRaw), lowDerived), wage)
  IN  IF w.genderRaw = 65535 THEN Assign(w, [divaRaw |-> 0]) ELSE w

\* the loop over the planned new rows from the i-th on; acc is
\* [nextBytes, totalRecords, maxId, names, added]
RECURSIVE CsvAddLoop(_, _, _)
CsvAddLoop(acc, newRows, i) ==
  IF i > Len(newRows) THEN acc
  ELSE LET data == newRows[i].data
           fullName == IF "fullName" \in DOMAIN data THEN Trim(data.fullName) ELSE <<>>
           key == ToLower(fullName)
           newId == acc.maxId + 1
       IN  IF fullName = <<>> \/ key \in acc.names THEN CsvAddLoop(acc, newRows, i + 1)
           ELSE CsvAddLoop([nextBytes |-> concatBytes(acc.nextBytes, BlankRecord(newId)),
                            totalRecords |-> acc.totalRecords + 1,
                            maxId |-> newId,
                            names |-> acc.names \cup {key},
                            added |-> Append(acc.added,
                                             CsvNewWorker(data, acc.totalRecords, newId))],
                           newRows, i + 1)

\* [...nextWorkers].sort((a, b) => a.index - b.index), stable
RECURSIVE InsertByIndex(_, _)
InsertByIndex(sorted, w) ==
  IF sorted = <<>> THEN <<w>>
  ELSE IF sorted[Len(sorted)].index <= w.index THEN Append(sorted, w)
  ELSE Append(InsertByIndex(SubSeq(sorted, 1, Len(sorted) - 1), w), sorted[Len(sorted)])

RECURSIVE SortByIndex(_)
SortByIndex(ws) ==
  IF ws = <<>> THEN <<>>
  ELSE InsertByIndex(SortByIndex(SubSeq(ws, 1, Len(ws) - 1)), ws[Len(ws)])

applyCsvImport ==
  LET updated == [i \in 1..Len(workers) |->
                    LET p == PatchFor(csvPlannedUpdates, workers[i].index)
                    IN  IF p = <<>> THEN workers[i] ELSE CsvUpdated(workers[i], p[1])]
      acc == CsvAddLoop([nextBytes |-> rawBytes,
                         totalRecords |-> Len(rawBytes) \div recordSize,
                         maxId |-> MaxId(workers),
                         names |-> {NameKey(workers[i]) : i \in 1..Len(workers)},
                         added |-> <<>>],
                        csvPlannedNewRows, 1)
  IN  /\ Invoke
      /\ modal = "csv"
      /\ csvPlannedUpdates # <<>> \/ csvPlannedNewRows # <<>>    \* else the button is disabled
      /\ rawBytes # null
      /\ rawBytes' = acc.nextBytes
      /\ workers' = SortByIndex(updated \o acc.added)
      /\ lastOp' = Report("applyCsvImport", TRUE)
      \* closeCsvModal()
      /\ modal' = "none"
      /\ csvPlannedUpdates' = <<>>
      /\ csvPlannedNewRows' = <<>>
      /\ UNCHANGED <<filePath, selectedForDelete, importSourceBytes, importSourceWorkers,
                     importSelection, ioVars, codec, vcheck>>


\* ------------------------------------------------------------------ onSave

\* Math.round(x / 1000) for x >= 0
RoundThousands(x) == (x + 500) \div 1000

skillPairs ==
  << <<"brawlingRaw", "brawling">>, <<"speedRaw", "speed">>, <<"technicalRaw", "technical">>,
     <<"stiffnessRaw", "stiffness">>, <<"sellingRaw", "selling">>, <<"overnessRaw", "overness">>,
     <<"charismaRaw", "charisma">>, <<"attitudeRaw", "attitude">>,
     <<"behaviourRaw", "behaviour">> >>

RECURSIVE ClampSkills(_, _)
ClampSkills(copy, i) ==
  IF i > Len(skillPairs) THEN copy
  ELSE ClampSkills(Assign(copy, setNumPatch(copy, skillPairs[i][1], skillPairs[i][2],
                                            clamp(getNum(copy, skillPairs[i]), 0, 100))),
                   i + 1)

\* copy.photoName = normalizePhotoNameForWrite(copy.photoName)
SavePhoto(copy) ==
  Assign(copy, [photoName |-> IF "photoName" \in DOMAIN copy
                                THEN appNormalizePhotoNameForWrite(copy.photoName)
                                ELSE StrNone])

\* setNum(ageRaw | age, clamp(getNum(...), 0, 70))
SaveAge(copy) ==
  Assign(copy, setNumPatch(copy, "ageRaw", "age",
                           clamp(getNum(copy, <<"ageRaw", "age">>), 0, 70)))

\* wageDollars and the thousands field set from the clamped dollars
SaveWageSet(copy, dollars) ==
  Assign(Assign(copy, [wageDollars |-> dollars]),
         setNumPatch(copy, "wageThousandsRaw", "wageRaw",
                     clamp(RoundThousands(dollars), 0, 300)))

\* the wage: the dollars the worker has, else its thousands, clamped to 0..300000
SaveWage(copy) ==
  SaveWageSet(copy, clamp(IF getNum(copy, <<"wageDollars">>) # 0
                            THEN getNum(copy, <<"wageDollars">>)
                            ELSE getNum(copy, <<"wageThousandsRaw", "wageRaw">>) * 1000,
                          0, 300000))

\* a worker of gender 65535 cannot be a diva
SaveDiva(copy) ==
  IF getNum(copy, <<"genderRaw", "gender">>) = 65535
    THEN Assign(copy, setNumPatch(copy, "divaRaw", "diva", 0)) ELSE copy

\* the copy of a worker onSave hands to writeWrestlerDat
SaveNormalize(w) == SaveDiva(ClampSkills(SaveWage(SaveAge(SavePhoto(w))), 1))

\* validateWrestlerDatBytes(outBytes) after writeWrestlerDat returned
SaveValidated(out, v) == IF ~v.ok THEN v ELSE out

SaveEncoded(out) == IF ~out.ok THEN out ELSE SaveValidated(out, validateWrestlerDatBytes(out.bytes))

\* the synchronous part of onSave: the bytes to write, or the first throw
SaveOutput ==
  IF filePath = "" \/ rawBytes = null THEN Fail("NoFile", "No file loaded.")
  ELSE IF Len(workers) = 0 THEN Fail("NoFile", "No workers loaded.")
  ELSE SaveEncoded(writeWrestlerDat(rawBytes,
                                    [i \in 1..Len(workers) |-> SaveNormalize(workers[i])]))

\* the Save File button is enabled
SaveEnabled == filePath # "" /\ Len(workers) # 0 /\ rawBytes # null

\* onSave up to its first await; ts is the second of the time stamp taken
SaveStart(ts) ==
  /\ Invoke
  /\ modal = "none"
  /\ SaveEnabled
  /\ Len(saves) < MaxSaves
  /\ ts >= clock
  /\ IF SaveOutput.ok
       THEN /\ saves' = Append(saves, [pc |-> "exists", path |-> filePath,
                                       out |-> SaveOutput.bytes, ts |-> ts])
            /\ clock' = ts
            /\ lastOp' = Report("onSave:start", TRUE)
       ELSE /\ UNCHANGED <<saves, clock>>
            /\ lastOp' = Report("onSave", FALSE)
  /\ UNCHANGED <<filePath, rawBytes, workers, selectedForDelete, modal, importSourceBytes,
                 importSourceWorkers, importSelection, csvPlannedUpdates, csvPlannedNewRows,
                 disk, backups, codec, vcheck>>

RemoveAt(seq, i) == SubSeq(seq, 1, i - 1) \o SubSeq(seq, i + 1, Len(seq))

EditorUnchanged ==
  UNCHANGED <<filePath, rawBytes, workers, selectedForDelete, modal, importSourceBytes,
              importSourceWorkers, importSelection, csvPlannedUpdates, csvPlannedNewRows>>

\* a save that goes on to writeFile without looking for its backup
SaveExistsSkipsBackup(i) ==
  /\ Resume
  /\ i \in 1..Len(saves) /\ saves[i].pc = "exists"
  /\ saves' = [saves EXCEPT ![i].pc = "write"]
  /\ UNCHANGED lastOp
  /\ EditorUnchanged
  /\ UNCHANGED <<disk, backups, clock, codec, vcheck>>

\* await exists(bakPath) returns
SaveExists(i) ==
  /\ Resume
  /\ i \in 1..Len(saves) /\ saves[i].pc = "exists"
  /\ LET alreadyBak == \E b \in backups : b.path = saves[i].path /\ b.ts = saves[i].ts
     IN  saves' = [saves EXCEPT ![i].pc = IF alreadyBak THEN "write" ELSE "copy"]
  /\ UNCHANGED lastOp
  /\ EditorUnchanged
  /\ UNCHANGED <<disk, backups, clock, codec, vcheck>>

\* await copyFile(filePath, bakPath) returns
SaveCopy(i) ==
  /\ Resume
  /\ i \in 1..Len(saves) /\ saves[i].pc = "copy"
  /\ backups' = {b \in backups : ~(b.path = saves[i].path /\ b.ts = saves[i].ts)}
                  \cup {[path |-> saves[i].path, ts |-> saves[i].ts,
                         bytes |-> disk[saves[i].path]]}
  /\ saves' = [saves EXCEPT ![i].pc = "write"]
  /\ UNCHANGED lastOp
  /\ EditorUnchanged
  /\ UNCHANGED <<disk, clock, codec, vcheck>>

\* writeFile(filePath, outBytes) writes the file
SaveWrite(i) ==
  /\ Resume
  /\ i \in 1..Len(saves) /\ saves[i].pc = "write"
  /\ disk' = [disk EXCEPT ![saves[i].path] = saves[i].out]
  /\ saves' = [saves EXCEPT ![i].pc = "written"]
  /\ UNCHANGED lastOp
  /\ EditorUnchanged
  /\ UNCHANGED <<backups, clock, codec, vcheck>>

\* await writeFile returns: setRawBytes(outBytes)
SaveFinish(i) ==
  /\ Resume
  /\ i \in 1..Len(saves) /\ saves[i].pc = "written"
  /\ rawBytes' = saves[i].out
  /\ saves' = RemoveAt(saves, i)
  /\ lastOp' = Report("onSave", TRUE)
  /\ UNCHANGED <<filePath, workers, selectedForDelete, modal, importSourceBytes,
                 importSourceWorkers, importSelection, csvPlannedUpdates, csvPlannedNewRows,
                 disk, backups, clock, codec, vcheck>>

\* a catch that installs the encoded bytes although the save failed
SaveRejectInstalls(i) ==
  /\ Resume
  /\ i \in 1..Len(saves) /\ saves[i].pc \in {"exists", "copy", "write"}
  /\ saves' = RemoveAt(saves, i)
  /\ lastOp' = Report("onSave", FALSE)
  /\ rawBytes' = saves[i].out
  /\ UNCHANGED <<filePath, workers, selectedForDelete, modal, importSourceBytes,
                 importSourceWorkers, importSelection, csvPlannedUpdates, csvPlannedNewRows,
                 disk, backups, clock, codec, vcheck>>

\* an await of onSave rejects (exists, copyFile or writeFile fails): catch
SaveReject(i) ==
  /\ Resume
  /\ i \in 1..Len(saves) /\ saves[i].pc \in {"exists", "copy", "write"}
  /\ saves' = RemoveAt(saves, i)
  /\ lastOp' = Report("onSave", FALSE)
  /\ EditorUnchanged
  /\ UNCHANGED <<disk, backups, clock, codec, vcheck>>

\* ------------------------------------------------------------ the editor

\* the structural operations and the dialogs that prepare them
NextEdit ==
  \/ \E path \in Paths : onOpen(path)
  \/ onAddNewWorker
  \/ \E recordIndex \in ListedIndices : onCopyWorker(recordIndex)
  \/ \E recordIndex \in ListedIndices : onDeleteWorker(recordIndex)
  \/ \E recordIndex \in ListedIndices, checked \in BOOLEAN :
       toggleSelectedForDelete(recordIndex, checked)
  \/ \E confirmed \in BOOLEAN : commitMultiDelete(confirmed)
  \/ \E path \in Paths : onImportWrestler(path)
  \/ \E sourceIndex \in {importSourceWorkers[i].index : i \in 1..Len(importSourceWorkers)},
        checked \in BOOLEAN : toggleImportSelection(sourceIndex, checked)
  \/ closeImportModal
  \/ commitImportSelected
  \/ \E rows \in CsvFiles : onImportCsv(rows)
  \/ closeCsvModal
  \/ applyCsvImport

NextSave ==
  \/ \E ts \in 0..MaxClock : SaveStart(ts)
  \/ \E i \in 1..MaxSaves : SaveExists(i)
  \/ \E i \in 1..MaxSaves : SaveCopy(i)
  \/ \E i \in 1..MaxSaves : SaveWrite(i)
  \/ \E i \in 1..MaxSaves : SaveFinish(i)
  \/ \E i \in 1..MaxSaves : SaveReject(i)

Next == NextEdit \/ NextSave

\* the editor with its saves
Spec == Init /\ [][Next]_vars

\* the editor without saves: a file is opened and edited
SpecEdit == Init /\ [][NextEdit]_vars

\* ---------------------------------------------------- the codec on its own

MaxCodecRecords == 2    \* records in a buffer handed to the codec
MaxCodecWorkers == 2    \* workers in a list handed to writeWrestlerDat

PhotoSpaced == <<112, 46, 106, 112, 103, 32, 32, 32>>  \* "p.jpg" space-padded

\* records as files hold them: text padded with spaces or with NULs, a photo
\* name or "None", a two-byte id, and one record whose marker is wrong
CodecRecords ==
  { MkRecord(52, 1, <<65, 32>>, PhotoSpaced, 30, 10, 1, 0, 0),
    MkRecord(52, 258, <<66, 0>>, PhotoP, 25, 5, 0, 0, 78),
    MkRecord(52, 2, <<68, 32>>, PhotoNone, 40, 400, 2, 1, 0),
    MkRecord(51, 3, <<67, 32>>, PhotoSpaced, 30, 10, 1, 0, 0) }

\* the buffers of at most n whole records
RECURSIVE BuffersOf(_)
BuffersOf(n) ==
  IF n = 0 THEN {<<>>}
  ELSE BuffersOf(n - 1)
         \cup {b \o r : b \in {x \in BuffersOf(n - 1) : Len(x) = (n - 1) * recordSize},
                       r \in CodecRecords}

\* what follows the last whole record: nothing, or the start of another one
CodecTails == {<<>>, <<52, 7, 0>>}

CodecBuffers == {b \o t : b \in BuffersOf(MaxCodecRecords), t \in CodecTails}

\* workers a caller may hand to writeWrestlerDat: some schema fields present
\* and others absent, keys that are no schema field, values out of range,
\* negative, not finite or not integer (254.5, -0.5, 300.5, 70000.5),
\* indices outside the buffer, and texts that are empty, longer than their
\* field ("Z\u00e9A", "abcdefghij", "abcdef.jpeg") or hold a character above 127
CodecWorkerChoices ==
  << [index |-> 0, id |-> 7, fullName |-> <<90>>],
     [index |-> 1, id |-> 8, ageRaw |-> 300, age |-> 44, pfTypeFlagA |-> 999],
     [index |-> 0, photoName |-> <<113, 46, 112, 110, 103>>, wageThousandsRaw |-> NaN],
     [index |-> MaxCodecRecords, id |-> 1, fullName |-> <<90>>],
     [index |-> -1, id |-> 1],
     [index |-> 0, ageRaw |-> 70000, wageThousandsRaw |-> -5, pfTypeFlagA |-> Half(254)],
     [index |-> 1, ageRaw |-> PosInfinity, wageThousandsRaw |-> Half(-1),
      pfTypeFlagA |-> NegInfinity],
     [index |-> 0, ageRaw |-> Half(300), wageThousandsRaw |-> Half(70000),
      pfTypeFlagA |-> 256],
     [index |-> 1, fullName |-> <<90, 233, 65>>],
     [index |-> 0, fullName |-> <<>>,
      photoName |-> <<97, 98, 99, 100, 101, 102, 103, 104, 105, 106>>],
     [index |-> 1, photoName |-> <<97, 98, 99, 100, 101, 102>> \o ExtJpeg] >>

InitCodec ==
  /\ EditorInit
  /\ vcheck = SchemaIdle
  /\ \E b \in CodecBuffers, n \in 0..MaxCodecWorkers :
       \E picks \in [1..n -> 1..Len(CodecWorkerChoices)] :
         codec = [op |-> "input", bytes |-> b,
                  workers |-> [i \in 1..n |-> CodecWorkerChoices[picks[i]]]]

\* parseWrestlerDat(bytes)
CodecParse ==
  /\ codec.op = "input"
  /\ codec' = [op |-> "parse", bytes |-> codec.bytes, workers |-> codec.workers,
               res |-> parseWrestlerDat(codec.bytes)]
  /\ UNCHANGED <<editorVars, ioVars, vcheck>>

\* writeWrestlerDat(bytes, workers)
CodecWrite ==
  /\ codec.op = "input"
  /\ codec' = [op |-> "write", bytes |-> codec.bytes, workers |-> codec.workers,
               caller |-> CallerBytesAfterWrite(codec.bytes, codec.workers),
               res |-> writeWrestlerDat(codec.bytes, codec.workers)]
  /\ UNCHANGED <<editorVars, ioVars, vcheck>>

\* writeWrestlerDat(bytes, parseWrestlerDat(bytes))
CodecRoundTrip ==
  /\ codec.op = "input"
  /\ codec.workers = <<>>
  /\ LET parsed == parseWrestlerDat(codec.bytes)
     IN  codec' = [op |-> "roundtrip", bytes |-> codec.bytes, workers |-> codec.workers,
                   res |-> IF parsed.ok THEN writeWrestlerDat(codec.bytes, parsed.workers)
                           ELSE parsed]
  /\ UNCHANGED <<editorVars, ioVars, vcheck>>

\* the length of the photoName field in the 307-byte record
PhotoLengthInFile == 20

\* the lengths the photo name is normalised to: the model's and the file's
PhotoLengths == {PhotoField.length, PhotoLengthInFile}

StrLongPhoto ==    \* "A_very_long_wrestler_name"
  <<65, 95, 118, 101, 114, 121, 95, 108, 111, 110, 103, 95, 119, 114, 101, 115, 116, 108,
    101, 114, 95, 110, 97, 109, 101>>

\* photo names a caller may hand over: without an extension, with ".jpg",
\* ".JPG", ".jpeg" or ".png", short and longer than the field, with spaces
\* around, empty and blank
PhotoInputs ==
  { StrLongPhoto, StrLongPhoto \o ExtJpeg, StrLongPhoto \o <<46, 74, 80, 71>>,
    <<97, 98, 99, 100, 101, 102, 103, 104, 105, 106>>,
    <<112>>, <<112>> \o ExtJpg, <<113>> \o ExtPng, <<32, 97, 98, 32>>, StrNone,
    <<97, 98, 99, 100, 101>>, <<>>, <<32, 32>> }

\* normalizePhotoNameForWrite(input, maxLen), called on its own
CodecPhoto ==
  /\ codec.op = "input"
  /\ codec.bytes = <<>> /\ codec.workers = <<>>
  /\ \E input \in PhotoInputs, maxLen \in PhotoLengths :
       codec' = [op |-> "photo", input |-> input, maxLen |-> maxLen,
                 res |-> normalizePhotoNameForWrite(input, maxLen)]
  /\ UNCHANGED <<editorVars, ioVars, vcheck>>

NextCodec == CodecParse \/ CodecWrite \/ CodecRoundTrip \/ CodecPhoto

\* the codec called on every buffer and worker list of the bounds
SpecCodec == InitCodec /\ [][NextCodec]_vars

\* ------------------------------------------- the schema validator on its own

MaxSchemaSize == 5      \* the recordSize of the schemas validated
MaxSchemaFields == 2    \* the fields of a schema

SchemaKinds ==
  { [type |-> "u8", length |-> 0], [type |-> "u16le", length |-> 0],
    [type |-> "ascii_fixed", length |-> 2], [type |-> "ascii_fixed", length |-> 0],
    [type |-> "u32", length |-> 0] }

SchemaFieldChoices ==
  { [name |-> n, offset |-> o, type |-> k.type, length |-> k.length] :
      n \in {"a", "b", ""}, o \in -1..(MaxSchemaSize - 1), k \in SchemaKinds }

SchemaHeaders ==
  { [marker |-> [offset |-> m, value |-> 52], workerId |-> [offset |-> o]] :
      m \in {0, 1, MaxSchemaSize}, o \in {1, MaxSchemaSize - 1} }

InitSchema ==
  /\ EditorInit
  /\ codec = CodecIdle
  /\ \E rs \in {0, MaxSchemaSize}, h \in SchemaHeaders, n \in 0..MaxSchemaFields :
       \E fs \in [1..n -> SchemaFieldChoices] :
         vcheck = [op |-> "input",
                   schema |-> [recordSize |-> rs, recordHeader |-> h, fields |-> fs]]

\* validateWrestlerDatSchema(schema)
ValidateSchema ==
  /\ vcheck.op = "input"
  /\ vcheck' = [op |-> "validated", schema |-> vcheck.schema,
                res |-> validateWrestlerDatSchema(vcheck.schema)]
  /\ UNCHANGED <<editorVars, ioVars, codec>>

NextSchema == ValidateSchema

\* the validator called on every schema of the bounds
SpecSchema == InitSchema /\ [][NextSchema]_vars

\* --------------------------------------------- makeUniqueFullName on its own

\* how many of the names "base (1)", "base (2)", ... are taken
TakenCounts == {0, 1, 2, 3, 997, 998, 999, 1000}

\* the base names handed over: "A", " b " and the empty string
NameBases == {<<65>>, <<32, 98, 32>>, <<>>}

\* the name makeUniqueFullName works with: the trimmed base, or "New Worker"
BaseOf(base) == IF Trim(base) = <<>> THEN StrNewWorker ELSE Trim(base)

\* the set of lower-cased existing names: the first count suffixed names,
\* with or without the base itself and the name "base (copy)"
TakenNames(base, count, withBase, withCopy) ==
  {ToLower(Suffixed(BaseOf(base), n)) : n \in 1..count}
    \cup (IF withBase THEN {ToLower(BaseOf(base))} ELSE {})
    \cup (IF withCopy THEN {ToLower(BaseOf(base) \o StrCopySuffix)} ELSE {})

InitNames ==
  /\ EditorInit
  /\ vcheck = SchemaIdle
  /\ \E base \in NameBases, count \in TakenCounts, withBase \in BOOLEAN, withCopy \in BOOLEAN :
       codec = [op |-> "name", base |-> base, count |-> count,
                withBase |-> withBase, withCopy |-> withCopy]

\* makeUniqueFullName(base, existing)
MakeName ==
  /\ codec.op = "name"
  /\ codec' = [op |-> "named", base |-> codec.base, count |-> codec.count,
               withBase |-> codec.withBase, withCopy |-> codec.withCopy,
               res |-> makeUniqueFullName(codec.base,
                                          TakenNames(codec.base, codec.count,
                                                     codec.withBase, codec.withCopy))]
  /\ UNCHANGED <<editorVars, ioVars, vcheck>>

NextNames == MakeName

\* makeUniqueFullName called on bases and sets of existing names
SpecNames == InitNames /\ [][NextNames]_vars

\* ------------------------------------------------------------- properties

\* the number of whole records of the byte store
RecordCount == Len(rawBytes) \div recordSize

\* C1: once a file is open, and after every add, copy, delete, multi-delete,
\* import and CSV apply, the length of rawBytes is a multiple of recordSize
\* and equals the number of workers times recordSize.
RawStoreMatchesWorkers ==
  rawBytes # null =>
    /\ Len(rawBytes) % recordSize = 0
    /\ Len(rawBytes) = Len(workers) * recordSize

\* a CSV apply has appended a record to an opened file
RawStoreMatchesWorkersWitness ==
  /\ rawBytes # null
  /\ lastOp.op = "applyCsvImport" /\ lastOp.ok
  /\ Len(workers) = 3

\* C2: in every state the structural operations reach, the indices of the
\* workers are exactly 0..n-1 without duplicates, and the worker with index i
\* is the one of block i of rawBytes: the block holds that worker's id, as
\* setU16LE stores it.
IndexIsPosition ==
  rawBytes # null =>
    /\ Len(rawBytes) = Len(workers) * recordSize
    /\ {workers[i].index : i \in 1..Len(workers)} = 0..(Len(workers) - 1)
    /\ \A i \in 1..Len(workers) :
         clamp(workers[i].id, 0, 65535)
                         = rawBytes[workers[i].index * recordSize + idOffset + 1]
                           + 256 * rawBytes[workers[i].index * recordSize + idOffset + 2]

\* the first record of a.dat was deleted: the worker of id 2 moved to index 0
IndexIsPositionWitness ==
  /\ filePath = "a.dat"
  /\ lastOp.op = "onDeleteWorker" /\ lastOp.ok
  /\ \E i \in 1..Len(workers) : workers[i].index = 0 /\ workers[i].id = 2

\* the handlers that change the record set
StructuralOps ==
  {"onAddNewWorker", "onCopyWorker", "onDeleteWorker", "commitMultiDelete",
   "commitImportSelected", "applyCsvImport"}

\* an onSave has started and its file write has not completed
SaveInFlight == \E i \in 1..Len(saves) : saves[i].pc # "written"

\* C3: while an onSave is in flight no second onSave starts and no structural
\* edit takes effect (the workers stay as they are).
SaveExcludesSaveAndEdit ==
  [][SaveInFlight /\ steps' # steps =>
       /\ lastOp'.op # "onSave:start"
       /\ ~(lastOp'.op \in StructuralOps /\ lastOp'.ok)]_vars

\* the 16-bit id stored in record i of the byte store
StoredId(bytes, i) == u16le(bytes, i * recordSize + idOffset)

\* the ids are pairwise distinct, in memory and in the byte store
IdsDistinct(bytes, ws) ==
  /\ \A i, j \in 1..Len(ws) : i # j => ws[i].id # ws[j].id
  /\ \A i, j \in 0..(Len(bytes) \div recordSize - 1) :
       i # j => StoredId(bytes, i) # StoredId(bytes, j)

\* C11: the ids of the records stay pairwise distinct through add, copy,
\* import, CSV apply, delete and multi-delete, as Worker.id in memory and as
\* the 16-bit id stored in rawBytes (the ids of every file that can be
\* opened are pairwise distinct).
IdsStayUnique ==
  rawBytes # null => IdsDistinct(rawBytes, workers)

\* what deleting position p makes of worker w
AfterDelete(w, p) == IF w.index > p THEN [w EXCEPT !.index = w.index - 1] ELSE w

\* the step removed block p of rawBytes and the worker of index p, and moved
\* the workers behind it one index down
DeleteEffect(p) ==
  /\ Len(rawBytes') = Len(rawBytes) - recordSize
  /\ rawBytes' = SubSeq(rawBytes, 1, p * recordSize)
                   \o SubSeq(rawBytes, (p + 1) * recordSize + 1, Len(rawBytes))
  /\ Len(workers') = Len(workers) - 1
  /\ \A j \in 1..Len(workers') : workers'[j].index \in 0..(Len(workers') - 1)
  /\ \A i \in 1..Len(workers) :
       workers[i].index # p =>
         \E j \in 1..Len(workers') : workers'[j] = AfterDelete(workers[i], p)

\* C12: onDeleteWorker(p) for a valid position p removes exactly the bytes
\* [p*recordSize, (p+1)*recordSize) of rawBytes and exactly the worker of
\* index p, decrements the index of every worker behind p and leaves the
\* workers before p unchanged.
DeleteRenumbers ==
  [][\A p \in ListedIndices : onDeleteWorker(p) => DeleteEffect(p)]_vars

\* of the records of ids 1, 2, 3, 4 at indices 0..3 the one at index 1 was
\* deleted: ids 3 and 4 are now at indices 1 and 2
DeleteRenumbersWitness ==
  /\ lastOp.op = "onDeleteWorker" /\ lastOp.ok
  /\ Len(workers) = 3
  /\ \E i, j, k \in 1..3 :
       /\ workers[i].index = 0 /\ workers[i].id = 1
       /\ workers[j].index = 1 /\ workers[j].id = 3
       /\ workers[k].index = 2 /\ workers[k].id = 4

\* the blocks of bytes from block i on whose index is not in S
RECURSIVE KeptBlocks(_, _, _)
KeptBlocks(bytes, S, i) ==
  IF i * recordSize >= Len(bytes) THEN <<>>
  ELSE (IF i \in S THEN <<>> ELSE SubSeq(bytes, i * recordSize + 1, (i + 1) * recordSize))
         \o KeptBlocks(bytes, S, i + 1)

\* the workers of ws whose index is not in S, in their order, each with its
\* index lowered by the number of deleted indices before it
RECURSIVE Survivors(_, _)
Survivors(ws, S) ==
  IF ws = <<>> THEN <<>>
  ELSE (IF Head(ws).index \in S THEN <<>>
        ELSE << [Head(ws) EXCEPT
                   !.index = Head(ws).index - Cardinality({x \in S : x < Head(ws).index})] >>)
         \o Survivors(Tail(ws), S)

\* onDeleteWorker applied to the positions of seq in turn, from the i-th on
RECURSIVE SingleDeletes(_, _, _, _)
SingleDeletes(bytes, ws, seq, i) ==
  IF i > Len(seq) THEN [bytes |-> bytes, workers |-> ws]
  ELSE SingleDeletes(sliceRemove(bytes, seq[i] * recordSize, seq[i] * recordSize + recordSize),
                     RemoveAndRenumber(ws, seq[i]), seq, i + 1)

\* the step removed exactly the records of S
MultiDeleteEffect(S) ==
  /\ lastOp'.op = "commitMultiDelete" /\ lastOp'.ok
  /\ Len(rawBytes') = Len(rawBytes) - Cardinality(S) * recordSize
  /\ rawBytes' = KeptBlocks(rawBytes, S, 0)
  /\ workers' = Survivors(workers, S)
  /\ {workers'[j].index : j \in 1..Len(workers')} = 0..(Len(workers) - Cardinality(S) - 1)
  /\ rawBytes' = SingleDeletes(rawBytes, workers, SortDesc(S), 1).bytes
  /\ workers' = SingleDeletes(rawBytes, workers, SortDesc(S), 1).workers

\* C13: commitMultiDelete, confirmed, for a set S of valid indices removes
\* exactly the records whose indices are in S: rawBytes shrinks by
\* |S| * recordSize, the survivors keep their bytes and order and end with the
\* indices 0..n-|S|-1, and the result is that of single deletes applied to
\* the members of S from the largest to the smallest.
MultiDeleteRemovesSelected ==
  [][(commitMultiDelete(TRUE) /\ selectedForDelete \subseteq ListedIndices)
       => MultiDeleteEffect(selectedForDelete)]_vars

\* of the three records of ids 1, 2, 3 those at indices 0 and 2 were deleted
\* in one go: the record of id 2 is left, at index 0
MultiDeleteRemovesSelectedWitness ==
  /\ lastOp.op = "commitMultiDelete" /\ lastOp.ok /\ lastOp.deleted = 2
  /\ Len(rawBytes) = recordSize
  /\ Len(workers) = 1 /\ workers[1].index = 0 /\ workers[1].id = 2

\* the 0-based offsets of a record that a field of that offset and width covers
OffsetsOf(offset, width) == offset..(offset + width - 1)

\* the block the step appended to rawBytes
AppendedBlock == SubSeq(rawBytes', Len(rawBytes) + 1, Len(rawBytes'))

\* the step appended one block to rawBytes and one worker, of index = the old
\* record count, to workers, and changed nothing that was there
AppendsOne ==
  /\ Len(rawBytes') = Len(rawBytes) + recordSize
  /\ SubSeq(rawBytes', 1, Len(rawBytes)) = rawBytes
  /\ Len(workers') = Len(workers) + 1
  /\ SubSeq(workers', 1, Len(workers)) = workers
  /\ workers'[Len(workers')].index = Len(rawBytes) \div recordSize

\* the appended block is zero but for the marker, the id max + 1 and the text
\* "None" of the photo name
AddEffect ==
  /\ AppendsOne
  /\ workers'[Len(workers')].id = MaxId(workers) + 1
  /\ At(AppendedBlock, markerOffset) = markerValue
  /\ u16le(AppendedBlock, idOffset) = MaxId(workers) + 1
  /\ asciiFixed(AppendedBlock, PhotoField.offset, PhotoField.length) = StrNone
  /\ \A o \in 0..(recordSize - 1) :
       o \notin ({markerOffset} \cup OffsetsOf(idOffset, 2)
                   \cup OffsetsOf(PhotoField.offset, PhotoField.length))
         => At(AppendedBlock, o) = 0

\* C14: onAddNewWorker appends exactly one record-sized block that is
\* zero-filled except for the marker byte, the id (max existing id + 1) and
\* the photo name "None", and one worker of index = the old record count;
\* every byte and worker that was there is unchanged.
AddAppendsBlankRecord ==
  [][onAddNewWorker => AddEffect]_vars

\* the record-local offsets stripEmploymentInRecordBytes writes
EmploymentOffsets == {EMPLOYMENT_CLEAR[k].off : k \in 1..Len(EMPLOYMENT_CLEAR)}

\* the appended block is record i but for the marker, the id max + 1 and the
\* neutral values at the employment offsets
CopyEffect(i) ==
  /\ AppendsOne
  /\ At(AppendedBlock, markerOffset) = markerValue
  /\ u16le(AppendedBlock, idOffset) = MaxId(workers) + 1
  /\ \A k \in 1..Len(EMPLOYMENT_CLEAR) :
       At(AppendedBlock, EMPLOYMENT_CLEAR[k].off) = EMPLOYMENT_CLEAR[k].value
  /\ \A o \in 0..(recordSize - 1) :
       o \notin ({markerOffset} \cup OffsetsOf(idOffset, 2) \cup EmploymentOffsets)
         => At(AppendedBlock, o) = At(rawBytes, i * recordSize + o)

\* C15: onCopyWorker(i) appends one block equal to the bytes of record i
\* except at the marker offset, the id bytes and the employment offsets,
\* which hold the marker value, the new id max + 1 and the neutral values;
\* every byte that was there is unchanged and the new worker has index = the
\* old record count.
CopyAppendsRecordBytes ==
  [][\A i \in ListedIndices : onCopyWorker(i) => CopyEffect(i)]_vars

\* the lower-cased trimmed full names of the workers
NameKeys(ws) == {NameKey(ws[i]) : i \in 1..Len(ws)}

\* the base name of a copy of worker w: its full name, else its short name,
\* else "New Worker"
CopyBase(w) ==
  IF "fullName" \in DOMAIN w /\ Trim(w.fullName) # <<>> THEN Trim(w.fullName)
  ELSE IF "shortName" \in DOMAIN w /\ Trim(w.shortName) # <<>> THEN Trim(w.shortName)
  ELSE StrNewWorker

\* name is base followed by " (n)" for the smallest n >= 1 that is free
SmallestFreeSuffix(name, base, keys) ==
  \E n \in 1..(Cardinality(keys) + 1) :
    /\ name = Suffixed(base, n)
    /\ \A m \in 1..(n - 1) : ToLower(Suffixed(base, m)) \in keys

\* the worker the step appended
AppendedWorker == workers'[Len(workers')]

SelectedSources == FilterSelected(importSourceWorkers, importSelection)

\* the k-th selected source is named, and its name matches, ignoring case, a
\* name of the destination or of a source selected before it
IsDuplicate(sel, k, dest) ==
  /\ Trim(sel[k].fullName) # <<>>
  /\ \/ ToLower(Trim(sel[k].fullName)) \in dest
     \/ \E j \in 1..(k - 1) : ToLower(Trim(sel[j].fullName)) = ToLower(Trim(sel[k].fullName))

\* the trimmed names of the selected sources from the k-th on that are
\* duplicates (dupes = TRUE) or are named and no duplicates (dupes = FALSE)
RECURSIVE NamesFrom(_, _, _, _)
NamesFrom(sel, dest, k, dupes) ==
  IF k > Len(sel) THEN <<>>
  ELSE (IF Trim(sel[k].fullName) # <<>> /\ IsDuplicate(sel, k, dest) = dupes
          THEN <<Trim(sel[k].fullName)>> ELSE <<>>)
         \o NamesFrom(sel, dest, k + 1, dupes)

\* the step imported exactly the named selected sources that are no
\* duplicates, and reported the duplicates
ImportEffect(sel, dest) ==
  /\ Len(rawBytes') = Len(rawBytes) + Len(NamesFrom(sel, dest, 1, FALSE)) * recordSize
  /\ SubSeq(rawBytes', 1, Len(rawBytes)) = rawBytes
  /\ Len(workers') = Len(workers) + Len(NamesFrom(sel, dest, 1, FALSE))
  /\ SubSeq(workers', 1, Len(workers)) = workers
  /\ [k \in 1..(Len(workers') - Len(workers)) |-> Trim(workers'[Len(workers) + k].fullName)]
       = NamesFrom(sel, dest, 1, FALSE)
  /\ lastOp'.skippedDupes = NamesFrom(sel, dest, 1, TRUE)

\* C17: commitImportSelected imports a selected source record only if its
\* trimmed fullName matches, ignoring case, no name of the destination and no
\* record imported earlier in the batch; every record skipped for such a
\* match is reported as a skipped duplicate and adds no bytes and no worker.
ImportSkipsDuplicates ==
  [][(commitImportSelected /\ importSelection # {})
       => ImportEffect(SelectedSources,
                       {ToLower(Trim(workers[i].fullName)) : i \in 1..Len(workers)})]_vars

\* the two records "c" and "C" of b.dat were selected for import into a
\* destination that holds "c": nothing was imported, both were reported
ImportSkipsDuplicatesWitness ==
  /\ lastOp.op = "commitImportSelected" /\ ~lastOp.ok
  /\ filePath = "b.dat" /\ Len(workers) = 2
  /\ lastOp.skippedDupes = << <<99>>, <<67>> >>

\* the step is one in which onOpen or onSave fails: the handler was invoked
\* and threw before its first await, or an await of a save in flight rejected
FailingStep ==
  /\ lastOp'.op \in {"onOpen", "onSave"} /\ ~lastOp'.ok
  /\ steps' # steps \/ Len(saves') < Len(saves)

\* the step is one of a save in flight that has not finished
SaveAwaitStep ==
  /\ steps' = steps
  /\ Len(saves') = Len(saves) /\ saves' # saves

\* C18: a failed operation leaves the prior in-memory state untouched: when
\* onOpen fails or onSave fails, in its synchronous part or at a rejected
\* await, the operation has changed none of filePath, rawBytes and workers.
FailureLeavesStateUntouched ==
  [][(FailingStep \/ SaveAwaitStep) => UNCHANGED <<filePath, rawBytes, workers>>]_vars

\* a save of the edited a.dat failed at writeFile, after its backup was made:
\* the three records are still in memory and the file is as it was
FailureLeavesStateUntouchedWitness ==
  /\ lastOp.op = "onSave" /\ ~lastOp.ok
  /\ saves = <<>> /\ backups # {}
  /\ filePath = "a.dat" /\ Len(workers) = 3 /\ Len(rawBytes) = 3 * recordSize
  /\ disk = InitialDisk

\* a save was started: what it will write is the output of writeWrestlerDat
\* for the workers as onSave normalises them, accepted by
\* validateWrestlerDatBytes
SaveStartsValidated ==
  Len(saves') > Len(saves) =>
    LET out == writeWrestlerDat(rawBytes, [i \in 1..Len(workers) |-> SaveNormalize(workers[i])])
    IN  /\ out.ok
        /\ validateWrestlerDatBytes(out.bytes).ok
        /\ saves'[Len(saves')].out = out.bytes
        /\ saves'[Len(saves')].path = filePath

\* a file was written: by a save that has its backup, with the bytes the
\* save validated
WriteAfterBackup ==
  disk' # disk =>
    \E i \in 1..Len(saves) :
      /\ saves[i].pc = "write"
      /\ disk' = [disk EXCEPT ![saves[i].path] = saves[i].out]
      /\ validateWrestlerDatBytes(saves[i].out).ok
      /\ \E b \in backups : b.path = saves[i].path /\ b.ts = saves[i].ts

\* a save failed: it wrote nothing, and it is no longer in flight
FailedSaveWritesNothing ==
  (lastOp'.op = "onSave" /\ ~lastOp'.ok /\ (steps' # steps \/ Len(saves') < Len(saves)))
    => disk' = disk /\ Len(saves') <= Len(saves)

\* C19: in every run of onSave the file is overwritten only after
\* writeWrestlerDat has returned and validateWrestlerDatBytes has accepted
\* its output, and only after a backup exists at the time-stamped .bak path;
\* the bytes written are the validated output, and a save that fails at an
\* earlier step never writes the file.
SaveWritesValidatedAfterBackup ==
  [][SaveStartsValidated /\ WriteAfterBackup /\ FailedSaveWritesNothing]_vars

\* a save of a.dat has written the file: the backup holds the bytes the file
\* had, and the file holds bytes that pass validation and differ from them
SaveWritesValidatedAfterBackupWitness ==
  /\ Len(saves) = 1 /\ saves[1].pc = "written" /\ saves[1].path = "a.dat"
  /\ disk["a.dat"] = saves[1].out /\ disk["a.dat"] # InitialDisk["a.dat"]
  /\ \E b \in backups :
       b.path = "a.dat" /\ b.ts = saves[1].ts /\ b.bytes = InitialDisk["a.dat"]

\* the integer part of a finite number, towards zero
IntegerPart(v) ==
  IF v > HalfBase - 1000000 /\ v < HalfBase + 1000000
    THEN (IF v >= HalfBase THEN v - HalfBase ELSE v - HalfBase + 1)
    ELSE v

\* what a numeric field of largest value hi holds for the number v
StoredNumber(v, hi) ==
  IF v \in {NaN, PosInfinity, NegInfinity} THEN 0
  ELSE IF IntegerPart(v) < 0 THEN 0
  ELSE IF IntegerPart(v) > hi THEN hi
  ELSE IntegerPart(v)

\* the last worker of the list with that index that has the field, if any
LastSupplier(ws, index, name) ==
  LET hits == {k \in 1..Len(ws) : ws[k].index = index /\ name \in DOMAIN ws[k]}
  IN  IF hits = {} THEN <<>> ELSE <<ws[CHOOSE k \in hits : \A j \in hits : j <= k]>>

\* the numeric field f of record r of out holds the clamped integer part of
\* the value supplied for it, low byte first
NumberStored(out, ws, r, f) ==
  LET w == LastSupplier(ws, r, f.name)
      abs == r * recordSize + f.offset
  IN  w # <<>> =>
        IF f.type = "u8" THEN At(out, abs) = StoredNumber(w[1][f.name], 255)
        ELSE /\ At(out, abs) = StoredNumber(w[1][f.name], 65535) % 256
             /\ At(out, abs + 1) = StoredNumber(w[1][f.name], 65535) \div 256

\* C20: for a u16le field writeWrestlerDat stores clamp(trunc(v), 0, 65535),
\* low byte first, and for a u8 field clamp(trunc(v), 0, 255); a value that
\* is not finite (NaN, +Infinity, -Infinity) is stored as 0.
WriteClampsNumbers ==
  (codec.op = "write" /\ codec.res.ok) =>
    \A r \in 0..(Len(codec.bytes) \div recordSize - 1), i \in 1..Len(schema.fields) :
      schema.fields[i].type \in {"u8", "u16le"}
        => NumberStored(codec.res.bytes, codec.workers, r, schema.fields[i])

\* 70000 was written to a u16le field, -5 to another and 254.5 to a u8
\* field: they are stored as 0xFF 0xFF, as 0 and as 254
WriteClampsNumbersWitness ==
  /\ codec.op = "write" /\ codec.res.ok
  /\ Len(codec.workers) = 1
  /\ codec.workers[1].index = 0
  /\ "ageRaw" \in DOMAIN codec.workers[1] /\ codec.workers[1].ageRaw = 70000
  /\ codec.workers[1].wageThousandsRaw = -5
  /\ codec.workers[1].pfTypeFlagA = Half(254)
  /\ At(codec.res.bytes, FieldNamed("ageRaw").offset) = 255
  /\ At(codec.res.bytes, FieldNamed("ageRaw").offset + 1) = 255
  /\ u16le(codec.res.bytes, FieldNamed("wageThousandsRaw").offset) = 0
  /\ At(codec.res.bytes, FieldNamed("pfTypeFlagA").offset) = 254

\* C10: in every state the structural operations reach, every record of
\* rawBytes has the marker value at the marker offset, so that the marker
\* checks of a save started there do not fail.
EveryRecordHasMarker ==
  rawBytes # null =>
    /\ \A i \in 0..(RecordCount - 1) : rawBytes[i * recordSize + markerOffset + 1] = markerValue
    /\ SaveEnabled => (SaveOutput.ok \/ SaveOutput.err # "MarkerMismatch")

\* an import has appended a record of another file to the two of a.dat
EveryRecordHasMarkerWitness ==
  /\ filePath = "a.dat"
  /\ lastOp.op = "commitImportSelected" /\ lastOp.ok
  /\ Len(workers) = 3
  /\ SaveEnabled /\ SaveOutput.ok

\* the buffer passes the size checks: at least one record, and whole records
WholeRecords(bytes) == Len(bytes) >= recordSize /\ Len(bytes) % recordSize = 0

\* the marker byte of record k of the buffer is the marker value
MarkerAt(bytes, k) == bytes[k * recordSize + markerOffset + 1] = markerValue

\* C4: for every buffer of whole records whose marker bytes are all correct,
\* writeWrestlerDat(bytes, parseWrestlerDat(bytes)) returns a buffer equal to
\* bytes, byte for byte.
RoundTripIsIdentity ==
  (/\ codec.op = "roundtrip"
   /\ WholeRecords(codec.bytes)
   /\ \A k \in 0..(Len(codec.bytes) \div recordSize - 1) : MarkerAt(codec.bytes, k))
    => (codec.res.ok /\ codec.res.bytes = codec.bytes)

\* the byte offsets of the schema fields the worker w has, in its record
SuppliedOffsets(w) ==
  UNION { IF schema.fields[j].name \in DOMAIN w
            THEN LET f == schema.fields[j]
                     width == IF f.type = "u8" THEN 1
                              ELSE IF f.type = "u16le" THEN 2 ELSE f.length
                 IN  (w.index * recordSize + f.offset)
                       ..(w.index * recordSize + f.offset + width - 1)
            ELSE {} : j \in 1..Len(schema.fields) }

\* the worker without the keys that are neither index nor a schema field
SchemaPart(w) == [k \in DOMAIN w \cap (FieldNames \cup {"index"}) |-> w[k]]

IndicesInRange(bytes, ws) ==
  \A i \in 1..Len(ws) : ws[i].index >= 0 /\ ws[i].index < Len(bytes) \div recordSize

\* C6: writeWrestlerDat returns a buffer only if every supplied index is in
\* [0, totalRecords) and every record of the output has the marker value;
\* with an index out of range or a record whose marker is wrong it throws.
WriteGuards ==
  codec.op = "write" =>
    /\ codec.res.ok =>
         /\ IndicesInRange(codec.bytes, codec.workers)
         /\ \A k \in 0..(Len(codec.res.bytes) \div recordSize - 1) :
              MarkerAt(codec.res.bytes, k)
    /\ (\/ ~IndicesInRange(codec.bytes, codec.workers)
        \/ \E k \in 0..(Len(codec.bytes) \div recordSize - 1) : ~MarkerAt(codec.bytes, k))
         => (~codec.res.ok /\ "bytes" \notin DOMAIN codec.res)

\* a worker was supplied for the sound record 0 only, record 1 has a wrong
\* marker: the scan of the finished output threw
WriteGuardsWitness ==
  /\ codec.op = "write" /\ ~codec.res.ok
  /\ Len(codec.bytes) = 2 * recordSize
  /\ Len(codec.workers) = 1 /\ codec.workers[1].index = 0
  /\ MarkerAt(codec.bytes, 0) /\ ~MarkerAt(codec.bytes, 1)

\* C8: when a buffer of whole records has a record whose marker byte is
\* wrong, parseWrestlerDat throws an error that cites the index of the first
\* such record and its absolute byte offset, and returns no list of records.
MarkerGate ==
  (codec.op = "parse" /\ WholeRecords(codec.bytes)) =>
    \A k \in 0..(Len(codec.bytes) \div recordSize - 1) :
      (~MarkerAt(codec.bytes, k) /\ \A j \in 0..(k - 1) : MarkerAt(codec.bytes, j))
        => /\ ~codec.res.ok
           /\ codec.res.err = "MarkerMismatch"
           /\ codec.res.index = k
           /\ codec.res.offset = k * recordSize + markerOffset
           /\ "workers" \notin DOMAIN codec.res

\* both records have a wrong marker: the error cites the first
MarkerGateWitness ==
  /\ codec.op = "parse"
  /\ Len(codec.bytes) = 2 * recordSize
  /\ ~MarkerAt(codec.bytes, 0) /\ ~MarkerAt(codec.bytes, 1)
  /\ ~codec.res.ok /\ codec.res.index = 0

\* C9: parseWrestlerDat throws a size error when the buffer is shorter than
\* recordSize or no multiple of it; when it returns, it returns
\* length / recordSize workers in the order of the records, the i-th with
\* index i and the id read from the id bytes of record i.
ParseSizeAndOrder ==
  codec.op = "parse" =>
    /\ ~WholeRecords(codec.bytes) => (~codec.res.ok /\ codec.res.err = "SizeMismatch")
    /\ codec.res.ok =>
         /\ WholeRecords(codec.bytes)
         /\ Len(codec.res.workers) = Len(codec.bytes) \div recordSize
         /\ \A i \in 1..Len(codec.res.workers) :
              /\ codec.res.workers[i].index = i - 1
              /\ codec.res.workers[i].id
                   = codec.bytes[(i - 1) * recordSize + idOffset + 1]
                       + 256 * codec.bytes[(i - 1) * recordSize + idOffset + 2]

\* two records were parsed, the second with an id of two bytes
ParseSizeAndOrderWitness ==
  /\ codec.op = "parse" /\ codec.res.ok
  /\ Len(codec.res.workers) = 2
  /\ codec.res.workers[2].index = 1 /\ codec.res.workers[2].id = 258

\* the width of a field of a supported type
FieldWidth(f) == IF f.type = "u8" THEN 1 ELSE IF f.type = "u16le" THEN 2 ELSE f.length

\* the byte ranges of a schema: marker, id and every field
RangesOf(s) ==
  << [start |-> s.recordHeader.marker.offset, end |-> s.recordHeader.marker.offset + 1],
     [start |-> s.recordHeader.workerId.offset, end |-> s.recordHeader.workerId.offset + 2] >>
    \o [i \in 1..Len(s.fields) |->
          [start |-> s.fields[i].offset, end |-> s.fields[i].offset + FieldWidth(s.fields[i])]]

\* recordSize > 0, every range non-empty and within [0, recordSize), and no
\* two ranges intersect
RangesFit(s) ==
  /\ s.recordSize > 0
  /\ \A i \in 1..Len(RangesOf(s)) :
       /\ RangesOf(s)[i].start >= 0
       /\ RangesOf(s)[i].start < RangesOf(s)[i].end
       /\ RangesOf(s)[i].end <= s.recordSize
  /\ \A i, j \in 1..Len(RangesOf(s)) :
       i < j => (\/ RangesOf(s)[i].end <= RangesOf(s)[j].start
                 \/ RangesOf(s)[j].end <= RangesOf(s)[i].start)

\* the fields are FieldDefs: a non-empty name and one of the three types
FieldDefs(s) ==
  \A i \in 1..Len(s.fields) :
    /\ s.fields[i].name \notin {"", " "}
    /\ s.fields[i].type \in {"u8", "u16le", "ascii_fixed"}

\* C7 as stated, for every schema: validateWrestlerDatSchema accepts it if and
\* only if recordSize > 0, the ranges of marker, id and every field lie within
\* [0, recordSize) and no two of them intersect.  A field with an empty name
\* is rejected though its range fits.
ValidatorAcceptsIffRangesFit ==
  vcheck.op = "validated" => (vcheck.res.ok <=> RangesFit(vcheck.schema))

\* C7: validateWrestlerDatSchema accepts a schema whose fields each have a
\* non-blank name and a supported type if and only if recordSize > 0, the
\* ranges of marker, id and every field lie within [0, recordSize) and no two
\* of them intersect.
ValidatorAcceptsFittingRanges ==
  (vcheck.op = "validated" /\ FieldDefs(vcheck.schema))
    => (vcheck.res.ok <=> RangesFit(vcheck.schema))

\* a rejected schema whose intersecting ranges are not neighbours in the
\* order the schema lists them: the field listed second lies inside the id
ValidatorAcceptsFittingRangesWitness ==
  /\ vcheck.op = "validated" /\ ~vcheck.res.ok
  /\ FieldDefs(vcheck.schema)
  /\ vcheck.schema.recordSize = MaxSchemaSize
  /\ vcheck.schema.recordHeader.marker.offset = 0
  /\ vcheck.schema.recordHeader.workerId.offset = 1
  /\ Len(vcheck.schema.fields) = 2
  /\ vcheck.schema.fields[1].offset = 4 /\ vcheck.schema.fields[1].type = "u8"
  /\ vcheck.schema.fields[2].offset = 2 /\ vcheck.schema.fields[2].type = "u8"

\* the text handed to the conversion for field f of worker w: the photo name
\* as normalizePhotoNameForWrite returns it, any other text as it is
TextToWrite(w, f) ==
  IF f.name = "photoName" THEN normalizePhotoNameForWrite(w[f.name], f.length) ELSE w[f.name]

\* the bytes of field f of record r of out are the characters of text that
\* fit, those above 127 as "?", then spaces
TextStored(out, r, f, text) ==
  /\ \A j \in 1..f.length :
       At(out, r * recordSize + f.offset + j - 1)
         = IF j > Len(text) THEN 32 ELSE IF text[j] > 127 THEN 63 ELSE text[j]

\* the ascii_fixed fields of the schema
TextFields == {i \in 1..Len(schema.fields) : schema.fields[i].type = "ascii_fixed"}

\* the worker list supplies one worker, and of the schema fields only field f
OnlySupplies(ws, f) ==
  /\ Len(ws) = 1
  /\ DOMAIN ws[1] \cap FieldNames = {f.name}

\* out differs from bytes in the range of field f of record r at most
FrameOfField(out, bytes, r, f) ==
  \A o \in 0..(Len(bytes) - 1) :
    o \notin OffsetsOf(r * recordSize + f.offset, f.length) => At(out, o) = At(bytes, o)

\* C21 as stated, for every ascii_fixed field: the field holds the first
\* min(len, L) characters of the input string, those above 127 as 0x3F, then
\* 0x20 up to L.  The photo name is normalised before it is written.
WriteStoresInputText ==
  (codec.op = "write" /\ codec.res.ok) =>
    \A r \in 0..(Len(codec.bytes) \div recordSize - 1), i \in TextFields :
      LastSupplier(codec.workers, r, schema.fields[i].name) # <<>>
        => TextStored(codec.res.bytes, r, schema.fields[i],
                      LastSupplier(codec.workers, r, schema.fields[i].name)[1][schema.fields[i].name])

\* C21: for every ascii_fixed field of length L writeWrestlerDat writes
\* exactly L bytes at the field's range: the first min(len, L) characters of
\* the text, each character above 127 replaced by 0x3F, then 0x20 up to L,
\* where the text is the input string and, for the photo name, the input
\* string as normalizePhotoNameForWrite returns it; characters beyond L are
\* dropped and no byte outside the field's range is written.
WriteStoresText ==
  (codec.op = "write" /\ codec.res.ok) =>
    \A r \in 0..(Len(codec.bytes) \div recordSize - 1), i \in TextFields :
      LastSupplier(codec.workers, r, schema.fields[i].name) # <<>>
        => /\ TextStored(codec.res.bytes, r, schema.fields[i],
                         TextToWrite(LastSupplier(codec.workers, r, schema.fields[i].name)[1],
                                     schema.fields[i]))
           /\ OnlySupplies(codec.workers, schema.fields[i])
                => FrameOfField(codec.res.bytes, codec.bytes, r, schema.fields[i])

\* the three characters "Z", e acute and "A" were written to the two bytes of
\* fullName of record 1: "Z?" is stored and the photo name behind is untouched
WriteStoresTextWitness ==
  /\ codec.op = "write" /\ codec.res.ok
  /\ Len(codec.workers) = 1 /\ codec.workers[1].index = 1
  /\ "fullName" \in DOMAIN codec.workers[1] /\ codec.workers[1].fullName = <<90, 233, 65>>
  /\ Slice(codec.res.bytes, recordSize + 3, recordSize + 5) = <<90, 63>>
  /\ Slice(codec.res.bytes, recordSize + 5, recordSize + 13)
       = Slice(codec.bytes, recordSize + 5, recordSize + 13)
  /\ Slice(codec.bytes, recordSize + 3, recordSize + 5) # <<90, 63>>

\* the name ends, ignoring case, in an extension the writer recognises
HasImageExtension(name) == EndsWith(ToLower(name), ExtJpg) \/ EndsWith(ToLower(name), ExtJpeg)

\* the extension the name ends in
ExtensionOf(name) == IF EndsWith(ToLower(name), ExtJpeg) THEN ExtJpeg ELSE ExtJpg

RawAndDerived == { <<"ageRaw", "age">>, <<"wageThousandsRaw", "wageDollars">> }

\* the two bytes of field k of the record of worker w in bytes
RawStored(bytes, w, k) == u16le(bytes, w.index * recordSize + FieldNamed(k).offset)

\* the workers of a file just opened have the raw field as the file holds it
\* next to the derived one
OpenKeepsRaw ==
  (lastOp'.op = "onOpen" /\ lastOp'.ok /\ steps' # steps) =>
    \A i \in 1..Len(workers'), p \in RawAndDerived :
      /\ p[1] \in DOMAIN workers'[i] /\ p[2] \in DOMAIN workers'[i]
      /\ workers'[i][p[1]] = RawStored(rawBytes', workers'[i], p[1])

\* a save that starts writes, for a raw field that is in memory as it was
\* decoded, the value that was decoded
SaveKeepsRaw ==
  Len(saves') > Len(saves) =>
    \A i \in 1..Len(workers), p \in RawAndDerived :
      (p[1] \in DOMAIN workers[i] /\ workers[i][p[1]] = RawStored(rawBytes, workers[i], p[1]))
        => RawStored(saves'[Len(saves')].out, workers[i], p[1])
             = RawStored(rawBytes, workers[i], p[1])

\* C23: a derived convenience value never replaces the raw field:
\* parseWrestlerDat keeps the raw field (ageRaw, wageThousandsRaw) next to the
\* derived one (age, wageDollars), and the raw value a save writes for a
\* record whose field was not edited equals the raw value that was decoded.
RawSurvivesSave ==
  [][OpenKeepsRaw /\ SaveKeepsRaw]_vars

\* p is no index of a record of rawBytes
OutOfBounds(p) == p < 0 \/ p >= Len(rawBytes) \div recordSize

\* C24: the record-set operations defend against an index out of bounds:
\* onDeleteWorker, onCopyWorker and commitMultiDelete invoked with a record
\* index outside [0, record count) leave rawBytes and workers unchanged.
EditsRejectBadIndex ==
  [][/\ \A p \in ListedIndices :
          (OutOfBounds(p) /\ (onDeleteWorker(p) \/ onCopyWorker(p)))
            => UNCHANGED <<rawBytes, workers>>
     /\ ((\E p \in selectedForDelete : OutOfBounds(p)) /\ commitMultiDelete(TRUE))
          => UNCHANGED <<rawBytes, workers>>]_vars

\* the step is the completion of a save: its buffer is installed as rawBytes
SaveCompletes == \E i \in 1..Len(saves) : SaveFinish(i)

\* C25: for every interleaving of an onSave in flight with a structural edit
\* that runs during one of its awaits, once the save completes the length of
\* rawBytes equals the number of workers times recordSize, and the buffer the
\* completion installs does not undo the edit: it holds as many records as
\* rawBytes held before.
SaveCompletionKeepsEdits ==
  [][SaveCompletes =>
       /\ Len(rawBytes') = Len(workers') * recordSize
       /\ Len(rawBytes') = Len(rawBytes)]_vars

\* C26: if an onOpen of another file completes while an onSave of the
\* previous file is in flight, then after the save completes filePath,
\* rawBytes and workers all belong to the newly opened file: the completion
\* of a save started for another path installs nothing.
SaveOfClosedFileInstallsNothing ==
  [][\A i \in 1..Len(saves) :
       (SaveFinish(i) /\ saves[i].path # filePath)
         => UNCHANGED <<filePath, rawBytes, workers>>]_vars

\* the text of the photoName field of the record of worker w in out
PhotoWritten(out, w) ==
  asciiFixed(out, w.index * recordSize + PhotoField.offset, PhotoField.length)

\* the photo name of w is missing, empty or "None" in any case
IsNonePhoto(w) ==
  \/ "photoName" \notin DOMAIN w
  \/ Trim(w.photoName) = <<>>
  \/ ToLower(Trim(w.photoName)) = ToLower(StrNone)

\* C27: when saving, a worker whose photo name is empty or equals "None"
\* (ignoring case) has the text "None" written to the photoName field, with
\* no ".jpg" appended; every other photo name is written with ".jpg" appended.
SaveWritesNonePhoto ==
  [][Len(saves') > Len(saves) =>
       \A i \in 1..Len(workers) :
         IF IsNonePhoto(workers[i])
           THEN PhotoWritten(saves'[Len(saves')].out, workers[i]) = StrNone
           ELSE EndsWith(PhotoWritten(saves'[Len(saves')].out, workers[i]), ExtJpg)]_vars

\* the handlers that create records
CreatingOps == {"onAddNewWorker", "onCopyWorker", "commitImportSelected", "applyCsvImport"}

\* C28: for every record created by add, copy, import or CSV apply, the
\* 16-bit id stored in the new record's bytes equals the id of the new
\* worker, for every value of the largest existing id in 0..65535.
NewIdIsStoredId ==
  [][(lastOp'.op \in CreatingOps /\ lastOp'.ok /\ steps' # steps) =>
       \A j \in 1..Len(workers') :
         workers'[j].index >= Len(rawBytes) \div recordSize
           => StoredId(rawBytes', workers'[j].index) = workers'[j].id]_vars

\* C29: every schema validateWrestlerDatSchema accepts has field names that
\* are non-empty and pairwise distinct: a schema in which two fields share a
\* name is rejected even when their byte ranges are disjoint and in bounds.
AcceptedNamesAreDistinct ==
  (vcheck.op = "validated" /\ vcheck.res.ok) =>
    /\ \A i \in 1..Len(vcheck.schema.fields) : vcheck.schema.fields[i].name \notin {"", " "}
    /\ \A i, j \in 1..Len(vcheck.schema.fields) :
         i # j => vcheck.schema.fields[i].name # vcheck.schema.fields[j].name

\* the suffixes among 1..last whose name "base (n)" is free
FreeSuffixes(base, existing, last) ==
  {n \in 1..last : ToLower(Suffixed(BaseOf(base), n)) \notin existing}

\* the answer of a search that tries the suffixes 1..last in increasing
\* order and falls back to "base (copy)" when all of them are taken
SearchUpTo(base, existing, last) ==
  IF FreeSuffixes(base, existing, last) = {} THEN BaseOf(base) \o StrCopySuffix
  ELSE Suffixed(BaseOf(base), MinOf(FreeSuffixes(base, existing, last)))

\* C30: when the base name is taken, makeUniqueFullName tries the suffixes
\* " (1)" through " (999)" in increasing order and returns the "(copy)"
\* fallback only when all 999 suffixed names are taken; with "base (1)" to
\* "base (998)" taken and "base (999)" free it returns "base (999)".
NameSearchTries999 ==
  (codec.op = "named" /\ codec.withBase) =>
    codec.res = SearchUpTo(codec.base,
                           TakenNames(codec.base, codec.count, codec.withBase, codec.withCopy),
                           999)


====
